---- MODULE Spec2Model ----
(***************************************************************************)
(* A model of the pinecone-search retrieval service: the ingest and batch  *)
(* ingest handlers (app/api/ingest_routes.py), the search handler          *)
(* (app/api/search_routes.py) and the cache service                        *)
(* (app/services/cache_service.py).                                        *)
(*                                                                         *)
(* Three specifications share the module:                                  *)
(*   SpecBatch   POST /batch-ingest and its background job                 *)
(*   SpecSearch  POST /search with the semantic cache in front             *)
(*   SpecIngest  POST /ingest and the namespace routing of all three paths *)
(***************************************************************************)
EXTENDS Integers, Sequences, FiniteSets, TLC

VARIABLES
    \* ---- POST /batch-ingest (ingest_routes.py, batch_ingest_documents) ----
    handlerPc,          \* position of the request handler
    batchResponse,      \* what the handler returned to the caller
    batchType,          \* request.type
    metadata_list,      \* request.metadata
    namespace,          \* line 65
    jobPc,              \* position of process_batch_in_background
    recStatus,          \* per record: position of its process_metadata call
    vector_queue,       \* queue.Queue of vectors
    consumerPc,         \* position of batch_upsert
    vectors_to_upsert,  \* batch_upsert's accumulator
    total_processed,    \* batch_upsert's counter
    upsertCalls,        \* calls of pinecone_service.upsert, in order
    errorLogs,          \* number of "Error processing document" log lines
    ackAt,              \* records finished when the response was returned
    \* ---- POST /ingest (ingest_routes.py, ingest_document) and routing ----
    ingestRequest,      \* the request: type, location_id, metadata
    ingestResponse,     \* "none", "success" or "error500"
    ingestNamespace,    \* line 41, None until computed
    ingestVector,       \* lines 36-40, None until built
    ingestEmbeds,       \* calls of embedding_service.generate_embedding
    ingestUpserts,      \* calls of pinecone_service.upsert
    batchRoute,         \* line 65 for the same type and location
    searchRoute,        \* search_routes.py lines 64-66 for the same
    \* ---- POST /search (search_routes.py) and the cache (cache_service.py) ----
    cacheClient,        \* _cache_service.client: "unset" while no service exists
    cacheCtorRaised,    \* a CacheService() call raised
    cacheConnectFailed, \* a connection to the cache failed in CacheService()
    cacheStore,         \* the cache's content: query -> data of its entries
    sreq,               \* per request: the SearchRequest, None before it arrives
    spc,                \* per request: position of search_documents
    spath,              \* per request: "hit" or "miss" once the lookup is done
    cached,             \* per request: cached_results (line 34)
    lookupRaised,       \* per request: client.search raised in get
    embedCalls,         \* per request: calls of generate_embedding
    queryCalls,         \* per request: calls of index.query, in dispatch order
    tasks,              \* per request: the run_in_executor tasks of line 68
    sresponse,          \* per request: the HTTP response
    errorCause,         \* per request: what raised, for a 500
    bgTask,             \* per request: the background task of line 90
    addTaskCalls,       \* per request: calls of background_tasks.add_task
    orderAtStart,       \* per request: where the first request was on arrival
    \* ---- POST /search of backend/main.py and backend/lang_cache_service.py ----
    bkCache,            \* the responses LangCache holds for the query
    bkCount,            \* requests handled so far
    bkPath,             \* "hit", "miss" or "noindex" for the last request
    bkResponse,         \* the last HTTP response
    bkTasks,            \* background cache writes scheduled and not yet run
    bkRequest,          \* the last request: its techType, whether the cache
                        \* was searched, the namespace queries that ran
    \* ---- sanitize_metadata (app/utils/common.py) ----
    sanPc,              \* "input", "once" or "twice"
    sanInput,           \* the value passed in
    sanOutput,          \* sanitize_metadata(sanInput)
    sanAgain,           \* sanitize_metadata(sanOutput)
    \* ---- the embedding services (app/services/embedding_service.py,
    \*      backend/embeddings_service.py) ----
    embImpl,            \* "app" or "backend": whose method is called
    embOp,              \* "single" or "batch"
    embTexts,           \* the texts passed in (one text for "single")
    embPos,             \* batch: index of the next text of the loop
    embOut,             \* the embeddings collected or returned so far
    embStatus,          \* "idle", "running", "returned" or "raised"
    embUpstream,        \* per text: calls of embeddings.create and whether one failed
    \* ---- the get_*_service factories (app/services/__init__.py) ----
    svcKind,            \* which factory the requests call
    svcGlobal,          \* the module global _<kind>_service: 0 is None
    svcPc,              \* per request thread: "start", "constructing", "done"
    svcRet,             \* per request thread: the instance returned, 0 for none
    svcMade,            \* instances constructed so far
    \* ---- collect_values (app/utils/common.py) ----
    cvInput,            \* the value passed in
    cvOutput,           \* what the call returned
    \* ---- product_to_semantic_texts (generate_text_service.py) ----
    gtProduct,          \* the product record
    gtParts,            \* the parts of the description
    \* ---- PineconeService.upsert / PineconeClient.upsert_vectors ----
    upImpl,             \* "app" or "backend"
    upVectors,          \* the list passed in
    upI,                \* the loop variable i
    upBatchSize,        \* the local batch_size
    upCalls,            \* the vectors of each index.upsert call made
    upResult,           \* what the call returned, or how it ended
    \* ---- DataIngestion.create_*_vectors (backend/data_ingestion.py) ----
    diKind,             \* "product", "blog" or "store"
    diRecords,          \* the records loaded from the data file
    diStatus,           \* per record: "pending", "running", "returned", "collected"
    diVectors,          \* the list vectors
    diPc                \* "running" or "returned"

batchVars == <<handlerPc, batchResponse, batchType, metadata_list, namespace,
               jobPc, recStatus, vector_queue, consumerPc, vectors_to_upsert,
               total_processed, upsertCalls, errorLogs, ackAt>>

ingestVars == <<ingestRequest, ingestResponse, ingestNamespace, ingestVector,
                ingestEmbeds, ingestUpserts, batchRoute, searchRoute>>

searchVars == <<cacheClient, cacheCtorRaised, cacheConnectFailed, cacheStore,
                sreq, spc, spath, cached, lookupRaised, embedCalls, queryCalls,
                tasks, sresponse, errorCause, bgTask, addTaskCalls,
                orderAtStart>>

backendVars == <<bkCache, bkCount, bkPath, bkResponse, bkTasks, bkRequest>>

sanVars == <<sanPc, sanInput, sanOutput, sanAgain>>

embVars == <<embImpl, embOp, embTexts, embPos, embOut, embStatus, embUpstream>>

svcVars == <<svcKind, svcGlobal, svcPc, svcRet, svcMade>>

cvVars == <<cvInput, cvOutput>>

gtVars == <<gtProduct, gtParts>>

upVars == <<upImpl, upVectors, upI, upBatchSize, upCalls, upResult>>

diVars == <<diKind, diRecords, diStatus, diVectors, diPc>>

\* the variables of the factories, the pure functions and the offline job
utilVars == <<svcVars, cvVars, gtVars, upVars, diVars>>

\* the variables of the request handlers and the batch job
coreVars == <<batchVars, ingestVars, searchVars, backendVars, sanVars, embVars>>

nonBatchVars == <<ingestVars, searchVars, backendVars, sanVars, embVars, utilVars>>

nonIngestVars == <<batchVars, searchVars, backendVars, sanVars, embVars, utilVars>>

nonSearchVars == <<batchVars, ingestVars, backendVars, sanVars, embVars, utilVars>>

nonBackendVars == <<batchVars, ingestVars, searchVars, sanVars, embVars, utilVars>>

nonSanVars == <<batchVars, ingestVars, searchVars, backendVars, embVars, utilVars>>

nonEmbVars == <<batchVars, ingestVars, searchVars, backendVars, sanVars, utilVars>>

nonSvcVars == <<coreVars, cvVars, gtVars, upVars, diVars>>

nonCvVars == <<coreVars, svcVars, gtVars, upVars, diVars>>

nonGtVars == <<coreVars, svcVars, cvVars, upVars, diVars>>

nonUpVars == <<coreVars, svcVars, cvVars, gtVars, diVars>>

nonDiVars == <<coreVars, svcVars, cvVars, gtVars, upVars>>

vars == <<coreVars, utilVars>>

(***************************************************************************)
(* Python values.  An Optional[str] is the empty tuple (None) or a         *)
(* one-element tuple holding the string.                                   *)
(***************************************************************************)
NoneVal == <<>>

Some(s) == <<s>>

\* str(x) of an Optional[str]: str(None) is the text "None".
PyStr(x) == IF x = NoneVal THEN "None" ELSE x[1]

\* bool(x) of an Optional[str]: None and "" are falsy.
Truthy(x) == x # NoneVal /\ x[1] # ""

\* a or b
PyOr(a, b) == IF Truthy(a) THEN a ELSE b

\* app/utils/constants.py
PRODUCTS == "products"

BLOGS == "blogs"

STORES == "stores"

ALL == "all"

OBJECT_TYPE == {PRODUCTS, BLOGS, STORES, ALL}

batch_size == 100

max_workers == 10

\* ---- bounds ----
MaxBatch == 2

MaxTopK == 2

\* requests the backend handler serves in one behaviour
MaxBackendRequests == 1

\* longest list inside a value given to sanitize_metadata
MaxListLen == 2

\* longest list of texts given to a batch embedding call
MaxTexts == 2

(***************************************************************************)
(* Namespace routing.                                                      *)
(***************************************************************************)
\* A routing without the "orphan" fallback.
IngestNamespaceNoFallback(type, location_id) ==
    IF type # PRODUCTS THEN type ELSE PyStr(location_id) \o "-" \o type

\* ingest_routes.py line 41 and line 65:
\*   request.type if request.type != PRODUCTS
\*                else f"{request.location_id or 'orphan'}-{request.type}"
IngestNamespace(type, location_id) ==
    IF type # PRODUCTS THEN type
    ELSE PyStr(PyOr(location_id, Some("orphan"))) \o "-" \o type

(***************************************************************************)
(* Records.  A metadata record carries the three identity keys; malformed  *)
(* stands for content on which the text templates raise (a variant that is *)
(* no map, a zip that is no string).                                       *)
(***************************************************************************)
Metadata(id, databaseId, zip, malformed) ==
    [id |-> id, databaseId |-> databaseId, zip |-> zip, malformed |-> malformed]

\* ingest_routes.py lines 37 and 85:
\*   str(metadata.get("id") or metadata.get("databaseId") or metadata.get("zip"))
VectorId(m) == PyStr(PyOr(m.id, PyOr(m.databaseId, m.zip)))

\* generate_text: raises for a type outside products/blogs/stores, and when
\* the template raises on the record's content.
GenerateTextOk(m, type) == type \in {PRODUCTS, BLOGS, STORES} /\ ~m.malformed

\* The vector built from a record (lines 84-88): its id, and the values and
\* metadata, which are determined by the record.
Vector(m) == [id |-> VectorId(m), metadata |-> m]

BatchRecords ==
    { Metadata(Some("p1"), NoneVal, NoneVal, FALSE),
      Metadata(Some("p2"), NoneVal, NoneVal, FALSE),
      Metadata(Some("p3"), NoneVal, NoneVal, TRUE) }

BatchLocations == {NoneVal, Some("L1")}

\* Records of a long batch: a run of records that differ in nothing the job
\* looks at, and two records that share the id "p1" with different content.
FillerRecord == Metadata(Some("p0"), NoneVal, NoneVal, FALSE)

SameIdRecords ==
    { Metadata(Some("p1"), Some("d1"), NoneVal, FALSE),
      Metadata(Some("p1"), Some("d2"), NoneVal, FALSE) }

SeqsUpTo(S, n) == UNION {[1..k -> S] : k \in 0..n}

(***************************************************************************)
(* The state of the parts that a behaviour does not run.                   *)
(***************************************************************************)
SvcIdle ==
    /\ svcKind = "none"
    /\ svcGlobal = 0
    /\ svcPc = <<>>
    /\ svcRet = <<>>
    /\ svcMade = 0

CvIdle == cvInput = <<>> /\ cvOutput = <<>>

GtIdle == gtProduct = <<>> /\ gtParts = <<>>

UpIdle ==
    /\ upImpl = "none"
    /\ upVectors = <<>>
    /\ upI = 0
    /\ upBatchSize = 0
    /\ upCalls = <<>>
    /\ upResult = <<>>

DiIdle ==
    /\ diKind = "none"
    /\ diRecords = <<>>
    /\ diStatus = <<>>
    /\ diVectors = <<>>
    /\ diPc = "none"

UtilIdle == SvcIdle /\ CvIdle /\ GtIdle /\ UpIdle /\ DiIdle

(***************************************************************************)
(* POST /ingest, and the namespace each path computes for one type and     *)
(* location.                                                               *)
(***************************************************************************)
\* A fan-out that forgets the stores namespace.
QueryNamespacesNoStores(ns) ==
    IF ns # Some(ALL) THEN <<ns>> ELSE <<Some(PRODUCTS), Some(BLOGS)>>

\* search_routes.py line 27: the namespaces a search request fans out to.
QueryNamespaces(ns) ==
    IF ns # Some(ALL) THEN <<ns>> ELSE <<Some(PRODUCTS), Some(BLOGS), Some(STORES)>>

\* search_routes.py lines 65-66:
\*   namespace_str = str(namespace)
\*   f"{request.location_id}-{namespace_str}" if namespace_str == PRODUCTS
\*                                            else namespace_str
SearchNamespaceStr(ns, location_id) ==
    IF PyStr(ns) = PRODUCTS
    THEN PyStr(location_id) \o "-" \o PyStr(ns)
    ELSE PyStr(ns)

\* search_routes.py lines 64-68: the namespace strings queried, in order.
SearchNamespaces(ns, location_id) ==
    [i \in 1..Len(QueryNamespaces(ns)) |->
        SearchNamespaceStr(QueryNamespaces(ns)[i], location_id)]

IngestRecords ==
    { Metadata(Some("p1"), NoneVal, NoneVal, FALSE),
      Metadata(NoneVal, Some("d1"), NoneVal, FALSE),
      Metadata(NoneVal, NoneVal, Some("z1"), FALSE),
      Metadata(Some(""), Some("d1"), Some("z1"), FALSE),
      Metadata(NoneVal, NoneVal, NoneVal, FALSE),
      Metadata(Some("p1"), NoneVal, NoneVal, TRUE) }

RouteLocations == {NoneVal, Some(""), Some("L1"), Some("orphan"), Some("None")}

IngestIdle ==
    /\ ingestRequest = [type |-> ALL, location_id |-> NoneVal,
                        metadata |-> Metadata(NoneVal, NoneVal, NoneVal, FALSE)]
    /\ ingestResponse = "none"
    /\ ingestNamespace = NoneVal
    /\ ingestVector = NoneVal
    /\ ingestEmbeds = 0
    /\ ingestUpserts = <<>>
    /\ batchRoute = NoneVal
    /\ searchRoute = NoneVal

\* ingest_document, lines 42-43: the upsert calls made for the vector.  The
\* call of line 43 is commented out in the source: none is made.
IngestUpsert(vector, ns) == <<>>

\* ingest_document, lines 26-49: text, embedding, vector, namespace,
\* response; any exception becomes HTTP 500.
IngestDocument(embedOk) ==
    /\ ingestResponse = "none"
    /\ LET m == ingestRequest.metadata
           type == ingestRequest.type
           ns == IngestNamespace(type, ingestRequest.location_id)
       IN IF ~GenerateTextOk(m, type)
          THEN /\ ingestResponse' = "error500"
               /\ UNCHANGED <<ingestNamespace, ingestVector, ingestEmbeds, ingestUpserts>>
          ELSE /\ ingestEmbeds' = ingestEmbeds + 1
               /\ IF ~embedOk
                  THEN /\ ingestResponse' = "error500"
                       /\ UNCHANGED <<ingestNamespace, ingestVector, ingestUpserts>>
                  ELSE /\ ingestVector' = Some(Vector(m))
                       /\ ingestNamespace' = Some(ns)
                       /\ ingestUpserts' = ingestUpserts \o IngestUpsert(Vector(m), ns)
                       /\ ingestResponse' = "success"
    /\ UNCHANGED <<ingestRequest, batchRoute, searchRoute>>
    /\ UNCHANGED nonIngestVars

\* batch_ingest_documents, line 65, for the same type and location.
RouteBatch ==
    /\ batchRoute = NoneVal
    /\ batchRoute' = Some(IngestNamespace(ingestRequest.type, ingestRequest.location_id))
    /\ UNCHANGED <<ingestRequest, ingestResponse, ingestNamespace, ingestVector,
                   ingestEmbeds, ingestUpserts, searchRoute>>
    /\ UNCHANGED nonIngestVars

\* search_documents, lines 27 and 64-68, for a search that names the same
\* type as its namespace and carries the same location.
RouteSearch ==
    /\ searchRoute = NoneVal
    /\ searchRoute' = Some(SearchNamespaces(Some(ingestRequest.type),
                                            ingestRequest.location_id))
    /\ UNCHANGED <<ingestRequest, ingestResponse, ingestNamespace, ingestVector,
                   ingestEmbeds, ingestUpserts, batchRoute>>
    /\ UNCHANGED nonIngestVars

(***************************************************************************)
(* POST /search and the cache service                                      *)
(***************************************************************************)
RequestIds == {"first", "second"}

Queries == {"red shoes"}

Min(a, b) == IF a <= b THEN a ELSE b

\* A response string held by the cache.  json.dumps of a value is a JSON
\* text; "" and a text that json.loads (or the match loop after it) rejects
\* are the other two kinds.
EmptyResponse == [kind |-> "empty", body |-> <<>>]

NotJson == [kind |-> "text", body |-> <<>>]

\* A serialization that writes the list back to front.
json_dumps_reversed(value) ==
    [kind |-> "json",
     body |-> [i \in 1..Len(value) |->
                 LET d == value[Len(value) + 1 - i]
                 IN <<"id", d.id, "metadata", d.metadata, "score", d.score>>]]

\* json.dumps of one result dict: a JSON object, its members in insertion
\* order (id, metadata, score).
JsonObject(d) == <<"id", d.id, "metadata", d.metadata, "score", d.score>>

\* cache_service.py line 51: json.dumps(value), a JSON array of objects
json_dumps(value) ==
    [kind |-> "json", body |-> [i \in 1..Len(value) |-> JsonObject(value[i])]]

\* search_routes.py line 36: json.loads raises on a text that is no JSON
JsonDecodable(response) == response.kind = "json"

\* json.loads of one JSON object: a dict of its members
JsonDict(o) == [id |-> o[2], metadata |-> o[4], score |-> o[6]]

json_loads(response) == [i \in 1..Len(response.body) |-> JsonDict(response.body[i])]

\* A match as index.query returns it (include_values=False: no values).
Match(id, score) ==
    [id |-> id, score |-> score, metadata |-> [type |-> "recreational"], values |-> <<>>]

\* search_routes.py lines 80-84: the dict kept for the cache
ResultDict(match) == [id |-> match.id, metadata |-> match.metadata, score |-> match.score]

\* request.py lines 31-35, built at search_routes.py lines 44-48 and 86
SearchMatch(d) ==
    [id |-> d.id, metadata |-> d.metadata, score |-> d.score, values |-> <<>>]

\* The vectors the index holds, per namespace, best first.
IndexContent(ns) ==
    IF ns = "L1-products" THEN <<Match("p1", 90), Match("p2", 80)>>
    ELSE IF ns = "orphan-products" THEN <<Match("p3", 85)>>
    ELSE IF ns = "blogs" THEN <<Match("b1", 70)>>
    ELSE IF ns = "stores" THEN <<Match("s1", 95), Match("s2", 60), Match("s3", 50)>>
    ELSE <<>>

\* pinecone_service.py lines 59-65: the top_k best matches of the namespace
IndexQuery(ns, top_k) == SubSeq(IndexContent(ns), 1, Min(top_k, Len(IndexContent(ns))))

\* pinecone_service.py line 59: the parameters of index.query
QueryCall(target, location_id, top_k) ==
    [target |-> PyStr(target),
     namespace |-> SearchNamespaceStr(target, location_id),
     top_k |-> top_k,
     include_metadata |-> TRUE,
     include_values |-> FALSE]

SearchLocations == {NoneVal, Some("L1")}

RequestNamespaces == {Some(t) : t \in OBJECT_TYPE} \cup {NoneVal}

SearchRequests ==
    [query : Queries, top_k : {MaxTopK - 1, MaxTopK}, location_id : SearchLocations,
     namespace : RequestNamespaces]

NoResponse == [status |-> 0, results |-> <<>>, total_results |-> 0, query_rewritten |-> NoneVal]

\* lines 51-55 and 93-97
SearchResponse(matches) ==
    [status |-> 200, results |-> matches, total_results |-> Len(matches),
     query_rewritten |-> NoneVal]

\* line 99, and the handler of main.py for an exception of a dependency
HTTP500 == [status |-> 500, results |-> <<>>, total_results |-> 0, query_rewritten |-> NoneVal]

NoTask == [status |-> "none", query |-> "", value |-> <<>>]

\* What the cache holds before the first request: nothing, or an entry left
\* by an earlier writer.
CacheInitData ==
    { <<>>,
      <<EmptyResponse>>,
      <<NotJson>>,
      <<json_dumps(<<>>)>>,
      <<json_dumps(<<ResultDict(Match("old", 40))>>)>> }

SearchIdle ==
    /\ cacheClient = "unset"
    /\ cacheCtorRaised = FALSE
    /\ cacheConnectFailed = FALSE
    /\ cacheStore = [q \in Queries |-> <<>>]
    /\ sreq = [r \in RequestIds |-> NoneVal]
    /\ spc = [r \in RequestIds |-> "new"]
    /\ spath = [r \in RequestIds |-> "none"]
    /\ cached = [r \in RequestIds |-> NoneVal]
    /\ lookupRaised = [r \in RequestIds |-> FALSE]
    /\ embedCalls = [r \in RequestIds |-> 0]
    /\ queryCalls = [r \in RequestIds |-> <<>>]
    /\ tasks = [r \in RequestIds |-> <<>>]
    /\ sresponse = [r \in RequestIds |-> NoResponse]
    /\ errorCause = [r \in RequestIds |-> "none"]
    /\ bgTask = [r \in RequestIds |-> NoTask]
    /\ addTaskCalls = [r \in RequestIds |-> 0]
    /\ orderAtStart = [r \in RequestIds |-> [returned |-> FALSE, written |-> FALSE]]

\* CacheService.__init__, lines 10-20: the try/except around the connection
\* is commented out, so a failed connection raises out of the constructor
\* and no service object exists.
CacheServiceInit(connectOk) ==
    IF connectOk
    THEN [client |-> "langcache", raised |-> FALSE, connectFailed |-> FALSE]
    ELSE [client |-> "unset", raised |-> TRUE, connectFailed |-> TRUE]

\* services/__init__.py lines 48-59: the singleton, built on first use
GetCacheService(client, connectOk) ==
    IF client # "unset"
    THEN [client |-> client, raised |-> FALSE, connectFailed |-> FALSE]
    ELSE CacheServiceInit(connectOk)

\* CacheService.get, lines 22-39: None without a client, None when search
\* raises, None when the result has no data, else the result (its data).
CacheGet(client, data, searchOk) ==
    IF client = "none" THEN NoneVal
    ELSE IF ~searchOk THEN NoneVal
    ELSE IF data # <<>> THEN Some(data)
    ELSE NoneVal

\* A hit test that forgets the stored response may be empty.
IsHitAnyEntry(c) == c # NoneVal /\ c[1] # <<>>

\* search_routes.py line 38:
\*   cached_results and cached_results.data and cached_results.data[0].response
IsHit(c) == c # NoneVal /\ c[1] # <<>> /\ c[1][1].kind # "empty"

\* A set that reports success and stores nothing.
CacheSetStoreDropped(store, query, value) == store

\* CacheService.set, lines 45-56, when client.set succeeds: the entry of the
\* query now holds the serialized value.
CacheSetStore(store, query, value) == [store EXCEPT ![query] = <<json_dumps(value)>>]

\* A merge cut to a global cap of top_k matches.
MapResultDictCapped(ms) == [i \in 1..Min(Len(ms), MaxTopK - 1) |-> ResultDict(ms[i])]

\* lines 78-85: cache_results, one dict per merged match
MapResultDict(ms) == [i \in 1..Len(ms) |-> ResultDict(ms[i])]

MapSearchMatch(ds) == [i \in 1..Len(ds) |-> SearchMatch(ds[i])]

RECURSIVE ConcatUntilEmpty(_)
\* A merge that stops at the first namespace without matches.
ConcatUntilEmpty(ss) ==
    IF ss = <<>> \/ Head(ss) = <<>> THEN <<>> ELSE Head(ss) \o ConcatUntilEmpty(Tail(ss))

RECURSIVE Concat(_)
\* lines 72-74: all_results.extend(result) over the gathered results
Concat(ss) == IF ss = <<>> THEN <<>> ELSE Head(ss) \o Concat(Tail(ss))

\* A task scheduled with a value other than the merged results.
BackgroundTaskNoValue(query, value) == [status |-> "pending", query |-> query, value |-> <<>>]

\* search_routes.py line 90: background_tasks.add_task(cache_service.set,
\* query, cache_results); the task runs after the response has been sent.
BackgroundTask(query, value) == [status |-> "pending", query |-> query, value |-> value]

\* The handler's state for request r after a step.
Outcome(r, pc, path, embeds, calls, response, cause, bg) ==
    /\ spc' = [spc EXCEPT ![r] = pc]
    /\ spath' = [spath EXCEPT ![r] = path]
    /\ embedCalls' = [embedCalls EXCEPT ![r] = embeds]
    /\ queryCalls' = [queryCalls EXCEPT ![r] = calls]
    /\ tasks' = [tasks EXCEPT ![r] =
                    [i \in 1..Len(calls) |-> [status |-> "running", result |-> <<>>]]]
    /\ sresponse' = [sresponse EXCEPT ![r] = response]
    /\ errorCause' = [errorCause EXCEPT ![r] = cause]
    /\ bgTask' = [bgTask EXCEPT ![r] = bg]

\* search_documents, lines 24-68 (with its dependencies): up to the first
\* await.  The handler runs on the event loop, so nothing of another request
\* interleaves with these lines.
SearchStart(r, request, connectOk, searchOk, embedOk) ==
    /\ sreq[r] = NoneVal
    /\ r = "second" => (sreq["first"] # NoneVal /\ request = sreq["first"][1])
    /\ sreq' = [sreq EXCEPT ![r] = Some(request)]
    /\ orderAtStart' = [orderAtStart EXCEPT ![r] =
            [returned |-> spc["first"] \in {"responded", "failed"},
             written |-> bgTask["first"].status = "stored"]]
    /\ UNCHANGED <<cacheStore, addTaskCalls>>
    /\ LET svc == GetCacheService(cacheClient, connectOk)
           c == CacheGet(svc.client, cacheStore[request.query], searchOk)
           targets == QueryNamespaces(request.namespace)
           calls == [i \in 1..Len(targets) |->
                        QueryCall(targets[i], request.location_id, request.top_k)]
       IN /\ cacheClient' = svc.client
          /\ cacheCtorRaised' = (cacheCtorRaised \/ svc.raised)
          /\ cacheConnectFailed' = (cacheConnectFailed \/ svc.connectFailed)
          /\ IF svc.raised
             THEN /\ Outcome(r, "failed", "none", 0, <<>>, HTTP500, "cache_connect", NoTask)
                  /\ UNCHANGED <<cached, lookupRaised>>
             ELSE /\ cached' = [cached EXCEPT ![r] = c]
                  /\ lookupRaised' = [lookupRaised EXCEPT ![r] = (svc.client # "none" /\ ~searchOk)]
                  /\ IF IsHit(c)
                     THEN IF JsonDecodable(c[1][1])
                          THEN Outcome(r, "responded", "hit", 0, <<>>,
                                       SearchResponse(MapSearchMatch(json_loads(c[1][1]))),
                                       "none", NoTask)
                          ELSE Outcome(r, "failed", "hit", 0, <<>>, HTTP500,
                                       "cache_decode", NoTask)
                     ELSE IF embedOk
                          THEN Outcome(r, "gather", "miss", 1, calls, NoResponse,
                                       "none", NoTask)
                          ELSE Outcome(r, "failed", "miss", 1, <<>>, HTTP500,
                                       "embedding", NoTask)
    /\ UNCHANGED nonSearchVars

\* PineconeService.query in an executor thread (line 68): the query returns
\* its matches or raises.
QueryReturn(r, i, ok) ==
    /\ spc[r] = "gather"
    /\ i \in 1..Len(tasks[r])
    /\ tasks[r][i].status = "running"
    /\ tasks' = [tasks EXCEPT ![r][i] =
            IF ok THEN [status |-> "done",
                        result |-> IndexQuery(queryCalls[r][i].namespace,
                                              queryCalls[r][i].top_k)]
                  ELSE [status |-> "failed", result |-> <<>>]]
    /\ UNCHANGED <<cacheClient, cacheCtorRaised, cacheConnectFailed, cacheStore,
                   sreq, spc, spath, cached, lookupRaised, embedCalls, queryCalls,
                   sresponse, errorCause, bgTask, addTaskCalls, orderAtStart>>
    /\ UNCHANGED nonSearchVars

\* A wait that ends with the first query that has completed.
FirstCompleted(ts) == \E i \in 1..Len(ts) : ts[i].status # "running"

\* asyncio.gather, line 70: without an exception the await ends when every
\* task has completed.
AllCompleted(ts) == \A i \in 1..Len(ts) : ts[i].status # "running"

\* A gather that hands exceptions back as results (return_exceptions=True).
GatherSwallows(ts) == FALSE

\* asyncio.gather, line 70: the first exception of a task is raised to the
\* awaiting handler.
GatherRaises(ts) == \E i \in 1..Len(ts) : ts[i].status = "failed"

\* search_documents, lines 70-99: gather returns when every query has
\* returned, or raises as soon as one has raised; then merge, schedule the
\* cache write, respond.
GatherReturn(r) ==
    /\ spc[r] = "gather"
    /\ LET failed == GatherRaises(tasks[r])
           done == ~failed /\ AllCompleted(tasks[r])
           all_results == Concat([i \in 1..Len(tasks[r]) |-> tasks[r][i].result])
           cache_results == MapResultDict(all_results)
           search_matches == MapSearchMatch(cache_results)
       IN /\ failed \/ done
          /\ IF failed
             THEN /\ spc' = [spc EXCEPT ![r] = "failed"]
                  /\ sresponse' = [sresponse EXCEPT ![r] = HTTP500]
                  /\ errorCause' = [errorCause EXCEPT ![r] = "query"]
                  /\ UNCHANGED <<bgTask, addTaskCalls>>
             ELSE /\ spc' = [spc EXCEPT ![r] = "responded"]
                  /\ sresponse' = [sresponse EXCEPT ![r] = SearchResponse(search_matches)]
                  /\ bgTask' = [bgTask EXCEPT ![r] =
                        BackgroundTask(sreq[r][1].query, cache_results)]
                  /\ addTaskCalls' = [addTaskCalls EXCEPT ![r] = @ + 1]
                  /\ UNCHANGED errorCause
    /\ UNCHANGED <<cacheClient, cacheCtorRaised, cacheConnectFailed, cacheStore,
                   sreq, spath, cached, lookupRaised, embedCalls, queryCalls,
                   tasks, orderAtStart>>
    /\ UNCHANGED nonSearchVars

\* The background task of line 90, run after the response has been sent:
\* CacheService.set, lines 41-56.
BackgroundCacheSet(r, setOk) ==
    /\ bgTask[r].status = "pending"
    /\ IF cacheClient # "none" /\ setOk
       THEN /\ cacheStore' = CacheSetStore(cacheStore, bgTask[r].query, bgTask[r].value)
            /\ bgTask' = [bgTask EXCEPT ![r].status = "stored"]
       ELSE /\ bgTask' = [bgTask EXCEPT ![r].status = "failed"]
            /\ UNCHANGED cacheStore
    /\ UNCHANGED <<cacheClient, cacheCtorRaised, cacheConnectFailed,
                   sreq, spc, spath, cached, lookupRaised, embedCalls, queryCalls,
                   tasks, sresponse, errorCause, addTaskCalls, orderAtStart>>
    /\ UNCHANGED nonSearchVars

(***************************************************************************)
(* POST /search of backend/main.py, with backend/lang_cache_service.py     *)
(***************************************************************************)
\* What pinecone_client.search returns for one match (pinecone_client.py
\* lines 155-162), with the namespace search_namespace adds.
BackendMatch(id, score, ns) ==
    [id |-> id, score |-> score, metadata |-> [type |-> ns], namespace |-> ns]

\* The vectors of the backend's three namespaces, best first; a product and
\* a blog have the same score, the store namespace has more than three.
BackendIndexContent(ns) ==
    IF ns = "product" THEN <<BackendMatch("p1", 90, ns), BackendMatch("p2", 80, ns)>>
    ELSE IF ns = "blog" THEN <<BackendMatch("b1", 80, ns)>>
    ELSE IF ns = "store" THEN <<BackendMatch("s1", 95, ns), BackendMatch("s2", 60, ns),
                                BackendMatch("s3", 50, ns), BackendMatch("s4", 40, ns)>>
    ELSE <<>>

backendNamespaces == <<"product", "blog", "store">>

MAX_SEARCH_RESULTS == 200

\* main.py lines 117-129: one namespace, top_k = min(top_k * 2, MAX), the
\* first three matches kept; pinecone_client.search returns [] on an error.
search_namespace(ns, top_k, ok) ==
    IF ~ok THEN <<>>
    ELSE LET all == BackendIndexContent(ns)
             got == SubSeq(all, 1, Min(Min(top_k * 2, MAX_SEARCH_RESULTS), Len(all)))
         IN SubSeq(got, 1, Min(3, Len(got)))

RECURSIVE SortedByScore(_)
\* main.py line 145: sorted(search_results, key=score, reverse=True).  The
\* sort is stable: elements of equal score keep the order they have in
\* search_results.
SortedByScore(ms) ==
    IF ms = <<>> THEN <<>>
    ELSE LET best == CHOOSE i \in 1..Len(ms) :
                        /\ \A j \in 1..Len(ms) : ms[j].score <= ms[i].score
                        /\ \A j \in 1..(i - 1) : ms[j].score < ms[i].score
         IN <<ms[best]>> \o SortedByScore([k \in 1..(Len(ms) - 1) |->
                                              IF k < best THEN ms[k] ELSE ms[k + 1]])

\* The orders in which the three futures of lines 134-136 can complete.
CompletionOrders ==
    {o \in [1..3 -> 1..3] : \A i, j \in 1..3 : i # j => o[i] # o[j]}

\* main.py lines 136-140: for future in as_completed(futures): extend
\* search_results with each result in the order of completion.
AsCompleted(order, results) == Concat([i \in 1..3 |-> results[order[i]]])

\* A handler whose rewriting step is switched on.
RewriteSwitchedOn == TRUE

\* main.py line 103: if False and request.rewrite_query
RewriteEnabled == FALSE

\* main.py lines 101-109: rewritten_query stays None unless the step runs
\* and rewrite_query returns.
RewrittenQuery(rewrite_query, rewriteOk) ==
    IF RewriteEnabled /\ rewrite_query /\ rewriteOk THEN Some("rewritten")
    ELSE NoneVal

\* json.dumps of one backend result: a JSON object, members in insertion order
BackendJsonObject(d) ==
    <<"id", d.id, "score", d.score, "metadata", d.metadata, "namespace", d.namespace>>

\* The text of that object as json.dumps writes it.
BackendObjectText(o) ==
    "{\"id\": \"" \o o[2] \o "\", \"score\": " \o ToString(o[4])
        \o ", \"metadata\": {\"type\": \"" \o o[6].type
        \o "\"}, \"namespace\": \"" \o o[8] \o "\"}"

RECURSIVE JoinTexts(_)
JoinTexts(ts) ==
    IF ts = <<>> THEN ""
    ELSE IF Len(ts) = 1 THEN ts[1]
    ELSE ts[1] \o ", " \o JoinTexts(Tail(ts))

\* lang_cache_service.py lines 116-136: _serialize_response, json.dumps of
\* the result list: the JSON array and its text.
BackendSerialize(value) ==
    LET body == [i \in 1..Len(value) |-> BackendJsonObject(value[i])]
    IN [kind |-> "json", body |-> body,
        text |-> "[" \o JoinTexts([i \in 1..Len(body) |-> BackendObjectText(body[i])]) \o "]"]

\* main.py line 94: json.loads of a stored JSON array
BackendDeserialize(response) ==
    [i \in 1..Len(response.body) |->
        [id |-> response.body[i][2], score |-> response.body[i][4],
         metadata |-> response.body[i][6], namespace |-> response.body[i][8]]]

\* What the cache holds before the first request: nothing, an entry with an
\* empty response, a response that is no JSON, or a serialized result list.
BackendCacheInit ==
    { <<>>,
      <<[kind |-> "empty", body |-> <<>>, text |-> ""]>>,
      <<[kind |-> "text", body |-> <<>>, text |-> "n/a"]>>,
      <<BackendSerialize(<<>>)>>,
      <<BackendSerialize(<<BackendMatch("old", 40, "blog")>>)>> }

BackendNoResponse ==
    [status |-> 0, results |-> <<>>, total_results |-> 0, query_rewritten |-> NoneVal]

BackendHTTP500 ==
    [status |-> 500, results |-> <<>>, total_results |-> 0, query_rewritten |-> NoneVal]

\* no request yet
BackendNoRequest == [techType |-> "none", cacheRead |-> FALSE, queries |-> <<>>]

BackendIdle ==
    /\ bkCache = <<>>
    /\ bkCount = 0
    /\ bkPath = "none"
    /\ bkResponse = BackendNoResponse
    /\ bkTasks = <<>>
    /\ bkRequest = BackendNoRequest

\* a handler that uses the cache for every request
AlwaysUseCache(techType) == TRUE

\* main.py line 85: should_use_cache
ShouldUseCache(techType) == techType = "redis"

\* LangCacheService.search, lines 35-66, with deserialize=True: None when
\* the search raises or finds nothing, the stored response string when it is
\* not empty, else the search result object itself.
BackendCacheSearch(cache, searchOk) ==
    IF ~searchOk \/ cache = <<>> THEN [kind |-> "none"]
    ELSE IF Len(cache[1].text) > 0 THEN [kind |-> "string", response |-> cache[1]]
    ELSE [kind |-> "object"]

\* main.py line 94: the total_results of a response served from the cache,
\* len(search_response) of the stored string.
BackendHitTotal(response) == Len(response.text)

\* main.py lines 78-162, the whole handler: cache lookup for techType
\* "redis", else (or on a miss) embedding, the three namespace searches,
\* the sort, the scheduling of the cache write, the response.
BackendSearch(techType, top_k, rewrite_query, searchOk, hasIndex, embedOk, oks, order) ==
    /\ bkCount < MaxBackendRequests
    /\ bkCount' = bkCount + 1
    /\ UNCHANGED bkCache
    /\ LET should_use_cache == ShouldUseCache(techType)
           found == IF should_use_cache THEN BackendCacheSearch(bkCache, searchOk)
                    ELSE [kind |-> "none"]
           rewritten_query == RewrittenQuery(rewrite_query, embedOk)
           search_results ==
               AsCompleted(order,
                   [i \in 1..3 |-> search_namespace(backendNamespaces[i], top_k, oks[i])])
           sorted_response == SortedByScore(search_results)
           queried == found.kind = "none" /\ hasIndex /\ embedOk
       IN /\ bkRequest' = [techType |-> techType, cacheRead |-> should_use_cache,
                           queries |-> IF queried
                                       THEN <<[top_k |-> top_k, oks |-> oks]>>
                                       ELSE <<>>]
          /\ IF found.kind = "object"
             THEN \* len() of an object without __len__ raises: line 160
                  /\ bkPath' = "hit"
                  /\ bkResponse' = BackendHTTP500
                  /\ UNCHANGED bkTasks
             ELSE IF found.kind = "string"
             THEN /\ bkPath' = "hit"
                  /\ bkResponse' =
                        IF found.response.kind = "json"
                        THEN [status |-> 200,
                              results |-> BackendDeserialize(found.response),
                              total_results |-> BackendHitTotal(found.response),
                              query_rewritten |-> NoneVal]
                        ELSE BackendHTTP500
                  /\ UNCHANGED bkTasks
             ELSE IF ~hasIndex
             THEN /\ bkPath' = "noindex"
                  /\ bkResponse' = [status |-> 200, results |-> <<>>, total_results |-> 0,
                                    query_rewritten |-> NoneVal]
                  /\ UNCHANGED bkTasks
             ELSE IF ~embedOk
             THEN /\ bkPath' = "miss"
                  /\ bkResponse' = BackendHTTP500
                  /\ UNCHANGED bkTasks
             ELSE /\ bkPath' = "miss"
                  /\ bkResponse' = [status |-> 200, results |-> sorted_response,
                                    total_results |-> Len(sorted_response),
                                    query_rewritten |-> rewritten_query]
                  /\ bkTasks' = IF should_use_cache THEN Append(bkTasks, sorted_response)
                                ELSE bkTasks
    /\ UNCHANGED nonBackendVars

\* cache_search_results (main.py lines 21-34) run as a background task:
\* async_set, set; a failure is logged.
BackendCacheSet(setOk) ==
    /\ bkTasks # <<>>
    /\ bkTasks' = Tail(bkTasks)
    /\ bkCache' = IF setOk THEN <<BackendSerialize(Head(bkTasks))>> ELSE bkCache
    /\ UNCHANGED <<bkCount, bkPath, bkResponse, bkRequest>>
    /\ UNCHANGED nonBackendVars

(***************************************************************************)
(* sanitize_metadata (app/utils/common.py).  A Python value is None, a     *)
(* scalar, a dict or a list; the items of a dict are its (key, value)      *)
(* pairs in insertion order, the items of a list carry an unused key.      *)
(***************************************************************************)
PyNone == [t |-> "none", v |-> "", items |-> <<>>]

PyScalar(v) == [t |-> "scalar", v |-> v, items |-> <<>>]

PyDict(items) == [t |-> "dict", v |-> "", items |-> items]

PyList(values) ==
    [t |-> "list", v |-> "", items |-> [i \in 1..Len(values) |-> <<"", values[i]>>]]

\* A leaf that keeps None under its key.
LeafItemsKeepNone(data, parent_key) == <<<<parent_key, data>>>>

\* lines 29-36: a value that is neither dict nor list: None is left out,
\* anything else is kept under the key built so far.
LeafItems(data, parent_key) ==
    IF data.t = "none" THEN <<>> ELSE <<<<parent_key, data>>>>

\* A key that is prefixed with the separator at the top level too.
NewKeyAlwaysPrefixed(parent_key, sep, key) == parent_key \o sep \o key

\* line 23: f"{parent_key}{sep}{key}" if parent_key else key
NewKey(parent_key, sep, key) ==
    IF parent_key # "" THEN parent_key \o sep \o key ELSE key

\* d[key] = value on a dict held as its items in insertion order
DictSet(items, key, value) ==
    IF \E i \in 1..Len(items) : items[i][1] = key
    THEN [i \in 1..Len(items) |-> IF items[i][1] = key THEN <<key, value>> ELSE items[i]]
    ELSE Append(items, <<key, value>>)

RECURSIVE DictUpdate(_, _)
\* items.update(new)
DictUpdate(items, new) ==
    IF new = <<>> THEN items
    ELSE DictUpdate(DictSet(items, new[1][1], new[1][2]), Tail(new))

RECURSIVE sanitize_metadata(_, _, _)
RECURSIVE SanitizeDictItems(_, _, _, _)
RECURSIVE SanitizeListItems(_, _, _, _, _)
\* lines 22-24: the loop over data.items()
SanitizeDictItems(todo, items, parent_key, sep) ==
    IF todo = <<>> THEN items
    ELSE SanitizeDictItems(Tail(todo),
            DictUpdate(items,
                sanitize_metadata(todo[1][2], NewKey(parent_key, sep, todo[1][1]), sep)),
            parent_key, sep)

\* lines 26-28: the loop over enumerate(data)
SanitizeListItems(todo, i, items, parent_key, sep) ==
    IF todo = <<>> THEN items
    ELSE SanitizeListItems(Tail(todo), i + 1,
            DictUpdate(items,
                sanitize_metadata(todo[1][2], parent_key \o sep \o ToString(i), sep)),
            parent_key, sep)

\* sanitize_metadata, lines 4-38; the result is the dict as its items
sanitize_metadata(data, parent_key, sep) ==
    IF data.t = "dict" THEN SanitizeDictItems(data.items, <<>>, parent_key, sep)
    ELSE IF data.t = "list" THEN SanitizeListItems(data.items, 0, <<>>, parent_key, sep)
    ELSE LeafItems(data, parent_key)

\* The inputs: None and a scalar, dicts over the keys "a" and "a_0" (the
\* key the first element of a list under "a" gets) and lists, nested twice.
SanKeys == {"a", "a_0"}

SanLeaves == {PyNone, PyScalar("x")}

DictsOver(V) ==
    {PyDict(<<>>)}
        \cup {PyDict(<<<<k, v>>>>) : k \in SanKeys, v \in V}
        \cup {PyDict(<<<<ks[1], v1>>, <<ks[2], v2>>>>) :
                ks \in {p \in SanKeys \X SanKeys : p[1] # p[2]}, v1 \in V, v2 \in V}

ListsOver(V) == {PyList(vs) : vs \in SeqsUpTo(V, MaxListLen)}

SanLevel1 == SanLeaves \cup DictsOver(SanLeaves) \cup ListsOver(SanLeaves)

SanInputs == SanLevel1 \cup DictsOver(SanLevel1) \cup ListsOver(SanLevel1)

SanIdle ==
    /\ sanPc = "idle"
    /\ sanInput = PyNone
    /\ sanOutput = <<>>
    /\ sanAgain = <<>>

\* sanitize_metadata(metadata), as at ingest_routes.py lines 39 and 87
Sanitize ==
    /\ sanPc = "input"
    /\ sanPc' = "once"
    /\ sanOutput' = sanitize_metadata(sanInput, "", "_")
    /\ UNCHANGED <<sanInput, sanAgain>>
    /\ UNCHANGED nonSanVars

\* sanitize_metadata applied to its own result
SanitizeAgain ==
    /\ sanPc = "once"
    /\ sanPc' = "twice"
    /\ sanAgain' = sanitize_metadata(PyDict(sanOutput), "", "_")
    /\ UNCHANGED <<sanInput, sanOutput>>
    /\ UNCHANGED nonSanVars

(***************************************************************************)
(* The embedding services: EmbeddingService (app/services) and             *)
(* EmbeddingsService (backend).                                            *)
(***************************************************************************)
EmbTexts == {"", " ", "red shoes", " red shoes\n"}

\* backend/embeddings_service.py line 27: text.strip().replace("\n", " ")
CleanedText(text) ==
    IF text \in {"", " "} THEN ""
    ELSE IF text = " red shoes\n" THEN "red shoes"
    ELSE text

\* What embeddings.create returns for an input: the provider's embedding of
\* exactly that input.
ProviderEmbedding(input) == [kind |-> "embedding", of |-> input]

\* The provider rejects an empty input string; any other call can succeed
\* or fail.
ProviderAccepts(input) == input # ""

\* backend/embeddings_service.py line 61: [0.0] * EMBEDDING_DIMENSION
ZeroVector == [kind |-> "zeros", of |-> ""]

NoUpstream == [calls |-> 0, failed |-> FALSE]

\* One call of the single-text method for a text: whether it raises, what
\* it returns, and its calls of embeddings.create.
\* app: generate_embedding / _get_embedding, lines 28-36 and 51-61: the text
\*      goes to the provider as it is.
\* backend: generate_embedding, lines 23-42: the text is stripped first and
\*      an empty result raises ValueError before any call.
GenerateEmbedding(impl, text, upstreamOk) ==
    LET input == IF impl = "backend" THEN CleanedText(text) ELSE text
        ok == upstreamOk /\ ProviderAccepts(input)
    IN IF impl = "backend" /\ input = ""
       THEN [raised |-> TRUE, value |-> ZeroVector, upstream |-> NoUpstream]
       ELSE [raised |-> ~ok, value |-> ProviderEmbedding(input),
             upstream |-> [calls |-> 1, failed |-> ~ok]]

EmbIdle ==
    /\ embImpl = "app"
    /\ embOp = "single"
    /\ embTexts = <<>>
    /\ embPos = 0
    /\ embOut = <<>>
    /\ embStatus = "idle"
    /\ embUpstream = <<>>

\* generate_embedding(text) of either service.
EmbedSingle(upstreamOk) ==
    /\ embStatus = "running"
    /\ embOp = "single"
    /\ LET res == GenerateEmbedding(embImpl, embTexts[1], upstreamOk)
       IN /\ embStatus' = IF res.raised THEN "raised" ELSE "returned"
          /\ embOut' = IF res.raised THEN <<>> ELSE <<res.value>>
          /\ embUpstream' = <<res.upstream>>
    /\ UNCHANGED <<embImpl, embOp, embTexts, embPos>>
    /\ UNCHANGED nonEmbVars

\* One iteration of the loop over the texts.
\* app: generate_embeddings, lines 43-45; an exception ends the call
\*      (lines 47-49).
\* backend: generate_embeddings_batch, lines 52-61; an exception is logged
\*      and the zero vector is appended in the embedding's place.
EmbedBatchStep(upstreamOk) ==
    /\ embStatus = "running"
    /\ embOp = "batch"
    /\ embPos <= Len(embTexts)
    /\ LET res == GenerateEmbedding(embImpl, embTexts[embPos], upstreamOk)
       IN /\ embUpstream' = Append(embUpstream, res.upstream)
          /\ IF ~res.raised
             THEN /\ embOut' = Append(embOut, res.value)
                  /\ embPos' = embPos + 1
                  /\ UNCHANGED embStatus
             ELSE IF embImpl = "backend"
             THEN /\ embOut' = Append(embOut, ZeroVector)
                  /\ embPos' = embPos + 1
                  /\ UNCHANGED embStatus
             ELSE /\ embStatus' = "raised"
                  /\ UNCHANGED <<embOut, embPos>>
    /\ UNCHANGED <<embImpl, embOp, embTexts>>
    /\ UNCHANGED nonEmbVars

\* The loop is over: return embeddings (app line 46, backend line 65).
EmbedBatchReturn ==
    /\ embStatus = "running"
    /\ embOp = "batch"
    /\ embPos > Len(embTexts)
    /\ embStatus' = "returned"
    /\ UNCHANGED <<embImpl, embOp, embTexts, embPos, embOut, embUpstream>>
    /\ UNCHANGED nonEmbVars

(***************************************************************************)
(* POST /batch-ingest                                                      *)
(***************************************************************************)
N == Len(metadata_list)

Finished(i) == recStatus[i] \in {"ok", "failed"}

AllWorkersFinished == jobPc \in {"running", "joining", "done"} /\ \A i \in 1..N : Finished(i)

NumRunning == Cardinality({i \in 1..N : recStatus[i] = "running"})

NumFinished == Cardinality({i \in 1..N : Finished(i)})

\* K: the records whose synthesis or embedding failed
NumFailed == Cardinality({i \in 1..N : recStatus[i] = "failed"})

RECURSIVE SumLen(_)
SumLen(calls) ==
    IF calls = <<>> THEN 0 ELSE Len(Head(calls).vectors) + SumLen(Tail(calls))

\* vectors passed to pinecone_service.upsert, over all calls
VectorsPassed == SumLen(upsertCalls)

BatchIdle ==
    /\ handlerPc = "idle"
    /\ batchResponse = "none"
    /\ batchType = ALL
    /\ metadata_list = <<>>
    /\ namespace = ""
    /\ jobPc = "none"
    /\ recStatus = <<>>
    /\ vector_queue = <<>>
    /\ consumerPc = "none"
    /\ vectors_to_upsert = <<>>
    /\ total_processed = 0
    /\ upsertCalls = <<>>
    /\ errorLogs = 0
    /\ ackAt = -1

\* batch_ingest_documents, lines 59-138: take the request, compute the
\* namespace, start the background thread.
BatchIngestAccept(type, location_id, records) ==
    /\ handlerPc = "idle"
    /\ handlerPc' = "accepted"
    /\ batchType' = type
    /\ metadata_list' = records
    /\ namespace' = IngestNamespace(type, location_id)
    /\ recStatus' = [i \in 1..Len(records) |-> "pending"]
    /\ jobPc' = "started"
    /\ UNCHANGED <<batchResponse, vector_queue, consumerPc, vectors_to_upsert,
                   total_processed, upsertCalls, errorLogs, ackAt>>
    /\ UNCHANGED nonBatchVars

\* A handler that joins the background thread before it returns.
RespondGuardJoin == jobPc = "done"

\* What the handler waits for before line 141: nothing.
RespondGuard == TRUE

\* batch_ingest_documents, lines 141-144: return the success response.
BatchIngestRespond ==
    /\ handlerPc = "accepted"
    /\ RespondGuard
    /\ handlerPc' = "responded"
    /\ batchResponse' = "success"
    /\ ackAt' = NumFinished
    /\ UNCHANGED <<batchType, metadata_list, namespace, jobPc, recStatus,
                   vector_queue, consumerPc, vectors_to_upsert, total_processed,
                   upsertCalls, errorLogs>>
    /\ UNCHANGED nonBatchVars

\* process_batch_in_background, lines 69-126: create the queue, start the
\* consumer thread and hand the records to the executor.
JobBegin ==
    /\ jobPc = "started"
    /\ jobPc' = "running"
    /\ consumerPc' = "head"
    /\ UNCHANGED <<handlerPc, batchResponse, batchType, metadata_list, namespace,
                   recStatus, vector_queue, vectors_to_upsert, total_processed,
                   upsertCalls, errorLogs, ackAt>>
    /\ UNCHANGED nonBatchVars

\* A pool that starts a thread for every record handed to it.
PoolAlwaysHasThread == TRUE

\* ThreadPoolExecutor(max_workers=10), line 125: a record is taken only by
\* one of the pool's max_workers threads, when that thread is free.
PoolHasIdleThread == NumRunning < max_workers

\* A pool thread takes the next record (executor.map hands the records out
\* in list order to at most max_workers threads).
WorkerStart(i) ==
    /\ jobPc = "running"
    /\ i \in 1..N
    /\ recStatus[i] = "pending"
    /\ \A j \in 1..(i-1) : recStatus[j] # "pending"
    /\ PoolHasIdleThread
    /\ recStatus' = [recStatus EXCEPT ![i] = "running"]
    /\ UNCHANGED <<handlerPc, batchResponse, batchType, metadata_list, namespace,
                   jobPc, vector_queue, consumerPc, vectors_to_upsert,
                   total_processed, upsertCalls, errorLogs, ackAt>>
    /\ UNCHANGED nonBatchVars

\* What process_metadata does with a record that raised (lines 92-93):
\* log it, nothing else.
FailedRecordQueue(q, m) == q

\* process_metadata, lines 74-93: text, embedding, vector, queue.put; any
\* exception is logged and swallowed.
WorkerFinish(i, embedOk) ==
    /\ i \in 1..N
    /\ recStatus[i] = "running"
    /\ IF GenerateTextOk(metadata_list[i], batchType) /\ embedOk
       THEN /\ recStatus' = [recStatus EXCEPT ![i] = "ok"]
            /\ vector_queue' = Append(vector_queue, Vector(metadata_list[i]))
            /\ UNCHANGED errorLogs
       ELSE /\ recStatus' = [recStatus EXCEPT ![i] = "failed"]
            /\ vector_queue' = FailedRecordQueue(vector_queue, metadata_list[i])
            /\ errorLogs' = errorLogs + 1
    /\ UNCHANGED <<handlerPc, batchResponse, batchType, metadata_list, namespace,
                   jobPc, consumerPc, vectors_to_upsert, total_processed,
                   upsertCalls, ackAt>>
    /\ UNCHANGED nonBatchVars

\* The with-block of line 125 ends when every submitted call has returned.
ExecutorShutdown ==
    /\ jobPc = "running"
    /\ \A i \in 1..N : Finished(i)
    /\ jobPc' = "joining"
    /\ UNCHANGED <<handlerPc, batchResponse, batchType, metadata_list, namespace,
                   recStatus, vector_queue, consumerPc, vectors_to_upsert,
                   total_processed, upsertCalls, errorLogs, ackAt>>
    /\ UNCHANGED nonBatchVars

\* batch_upsert, line 100: while total_processed < len(metadata_list)
ConsumerHead ==
    /\ consumerPc = "head"
    /\ consumerPc' = IF total_processed < N THEN "waiting" ELSE "done"
    /\ UNCHANGED <<handlerPc, batchResponse, batchType, metadata_list, namespace,
                   jobPc, recStatus, vector_queue, vectors_to_upsert,
                   total_processed, upsertCalls, errorLogs, ackAt>>
    /\ UNCHANGED nonBatchVars

\* PineconeService.upsert, pinecone_service.py lines 32-52: the call as the
\* index sees it; a failure is logged (line 51) and raised again (line 52).
Upsert(vectors, ns, upsertOk) ==
    [vectors |-> vectors, namespace |-> ns, ok |-> upsertOk, logged |-> ~upsertOk]

\* A consumer that flushes only at the end of the stream.
FlushDueAtEndOnly(acc, processed) == processed = N

\* batch_upsert, line 108:
\*   len(vectors_to_upsert) >= batch_size or total_processed == len(metadata_list)
FlushDue(acc, processed) == Len(acc) >= batch_size \/ processed = N

\* batch_upsert, lines 103-112: a vector arrives; flush on a full batch or on
\* the last item.  An exception of upsert is not queue.Empty: it ends the
\* thread.
ConsumerGet(upsertOk) ==
    /\ consumerPc = "waiting"
    /\ vector_queue # <<>>
    /\ vector_queue' = Tail(vector_queue)
    /\ total_processed' = total_processed + 1
    /\ LET acc == Append(vectors_to_upsert, Head(vector_queue))
       IN IF FlushDue(acc, total_processed + 1)
          THEN /\ upsertCalls' = Append(upsertCalls, Upsert(acc, namespace, upsertOk))
               /\ IF upsertOk
                  THEN vectors_to_upsert' = <<>> /\ consumerPc' = "head"
                  ELSE vectors_to_upsert' = acc /\ consumerPc' = "dead"
          ELSE /\ upsertOk
               /\ vectors_to_upsert' = acc
               /\ consumerPc' = "head"
               /\ UNCHANGED upsertCalls
    /\ UNCHANGED <<handlerPc, batchResponse, batchType, metadata_list, namespace,
                   jobPc, recStatus, errorLogs, ackAt>>
    /\ UNCHANGED nonBatchVars

\* batch_upsert, lines 113-117: queue.Empty after the one-second wait.
ConsumerTimeout ==
    /\ consumerPc = "waiting"
    /\ vector_queue = <<>>
    /\ consumerPc' = IF total_processed < N THEN "head" ELSE "done"
    /\ UNCHANGED <<handlerPc, batchResponse, batchType, metadata_list, namespace,
                   jobPc, recStatus, vector_queue, vectors_to_upsert,
                   total_processed, upsertCalls, errorLogs, ackAt>>
    /\ UNCHANGED nonBatchVars

\* A join that returns only for a thread whose function returned.
ConsumerReturned == consumerPc = "done"

\* Thread.join (line 129) returns when the thread has ended, by a return of
\* batch_upsert or by an exception that left it.
ConsumerThreadEnded == consumerPc \in {"done", "dead"}

\* process_batch_in_background, lines 129-131: upsert_thread.join() returns.
JobJoin ==
    /\ jobPc = "joining"
    /\ ConsumerThreadEnded
    /\ jobPc' = "done"
    /\ UNCHANGED <<handlerPc, batchResponse, batchType, metadata_list, namespace,
                   recStatus, vector_queue, consumerPc, vectors_to_upsert,
                   total_processed, upsertCalls, errorLogs, ackAt>>
    /\ UNCHANGED nonBatchVars

InitBatch == BatchIdle /\ IngestIdle /\ SearchIdle /\ BackendIdle /\ SanIdle /\ EmbIdle /\ UtilIdle

JobNext ==
    \/ JobBegin
    \/ \E i \in 1..N : WorkerStart(i)
    \/ \E i \in 1..N, embedOk \in BOOLEAN : WorkerFinish(i, embedOk)
    \/ ExecutorShutdown
    \/ ConsumerHead
    \/ \E upsertOk \in BOOLEAN : ConsumerGet(upsertOk)
    \/ ConsumerTimeout
    \/ JobJoin

NextBatch ==
    \/ \E type \in OBJECT_TYPE, location_id \in BatchLocations,
          records \in SeqsUpTo(BatchRecords, MaxBatch) :
              BatchIngestAccept(type, location_id, records)
    \/ BatchIngestRespond
    \/ JobNext

SpecBatch == InitBatch /\ [][NextBatch]_vars

\* Threads are scheduled fairly: every thread that can step eventually does.
FairSpecBatch ==
    /\ SpecBatch
    /\ WF_vars(BatchIngestRespond)
    /\ WF_vars(JobBegin)
    /\ \A i \in 1..MaxBatch : WF_vars(WorkerStart(i))
    /\ \A i \in 1..MaxBatch : WF_vars(\E embedOk \in BOOLEAN : WorkerFinish(i, embedOk))
    /\ WF_vars(ExecutorShutdown)
    /\ WF_vars(ConsumerHead)
    /\ WF_vars(\E upsertOk \in BOOLEAN : ConsumerGet(upsertOk))
    /\ WF_vars(ConsumerTimeout)
    /\ WF_vars(JobJoin)

(***************************************************************************)
(* Long batches.  The job is taken up in a state it reaches after the      *)
(* request was answered and the threads were started.                      *)
(***************************************************************************)
\* The namespace as the index holds it: upsert writes each vector under its
\* id, a later write of an id replacing the earlier one.
UpsertVectors(store, vectors) ==
    LET last == {i \in 1..Len(vectors) :
                    \A j \in (i+1)..Len(vectors) : vectors[j].id # vectors[i].id}
    IN {v \in store : \A i \in 1..Len(vectors) : vectors[i].id # v.id}
         \cup {vectors[i] : i \in last}

RECURSIVE UpsertAll(_, _)
UpsertAll(store, calls) ==
    IF calls = <<>> THEN store
    ELSE UpsertAll(IF Head(calls).ok THEN UpsertVectors(store, Head(calls).vectors)
                   ELSE store,
                   Tail(calls))

NamespaceContent == UpsertAll({}, upsertCalls)

\* A job of batch_size or batch_size + 1 records whose first batch_size - 1
\* records have gone through workers, queue and consumer; the records still
\* to be taken share an id.
InitBatchTail ==
    /\ IngestIdle /\ SearchIdle /\ BackendIdle /\ SanIdle /\ EmbIdle /\ UtilIdle
    /\ handlerPc = "responded"
    /\ batchResponse = "success"
    /\ ackAt = 0
    /\ batchType = BLOGS
    /\ namespace = IngestNamespace(BLOGS, NoneVal)
    /\ \E n \in 1..2 : \E last \in [1..n -> SameIdRecords] :
          metadata_list = [i \in 1..(batch_size - 1 + n) |->
                              IF i < batch_size THEN FillerRecord
                              ELSE last[i - batch_size + 1]]
    /\ recStatus = [i \in 1..Len(metadata_list) |->
                       IF i < batch_size THEN "ok" ELSE "pending"]
    /\ jobPc = "running"
    /\ vector_queue = <<>>
    /\ consumerPc = "head"
    /\ vectors_to_upsert = [i \in 1..(batch_size - 1) |-> Vector(FillerRecord)]
    /\ total_processed = batch_size - 1
    /\ upsertCalls = <<>>
    /\ errorLogs = 0

NextBatchTail ==
    \/ \E i \in 1..N : WorkerStart(i)
    \/ \E i \in 1..N, embedOk \in BOOLEAN : WorkerFinish(i, embedOk)
    \/ ExecutorShutdown
    \/ ConsumerHead
    \/ \E upsertOk \in BOOLEAN : ConsumerGet(upsertOk)
    \/ ConsumerTimeout
    \/ JobJoin

SpecBatchTail == InitBatchTail /\ [][NextBatchTail]_vars

\* A job of max_workers + 1 records, all of them still to be taken by the
\* pool, with a provider that embeds every text.
InitBatchPool ==
    /\ IngestIdle /\ SearchIdle /\ BackendIdle /\ SanIdle /\ EmbIdle /\ UtilIdle
    /\ handlerPc = "responded"
    /\ batchResponse = "success"
    /\ ackAt = 0
    /\ batchType = BLOGS
    /\ namespace = IngestNamespace(BLOGS, NoneVal)
    /\ metadata_list = [i \in 1..(max_workers + 1) |-> FillerRecord]
    /\ recStatus = [i \in 1..(max_workers + 1) |-> "pending"]
    /\ jobPc = "running"
    /\ vector_queue = <<>>
    /\ consumerPc = "head"
    /\ vectors_to_upsert = <<>>
    /\ total_processed = 0
    /\ upsertCalls = <<>>
    /\ errorLogs = 0

NextBatchPool ==
    \/ \E i \in 1..N : WorkerStart(i)
    \/ \E i \in 1..N : WorkerFinish(i, TRUE)
    \/ ExecutorShutdown
    \/ ConsumerHead
    \/ \E upsertOk \in BOOLEAN : ConsumerGet(upsertOk)
    \/ ConsumerTimeout
    \/ JobJoin

SpecBatchPool == InitBatchPool /\ [][NextBatchPool]_vars

(***************************************************************************)
(* The specification of POST /ingest and the routing                       *)
(***************************************************************************)
InitIngest ==
    /\ BatchIdle
    /\ EmbIdle
    /\ UtilIdle
    /\ SearchIdle
    /\ BackendIdle
    /\ SanIdle
    /\ ingestRequest \in [type : OBJECT_TYPE, location_id : RouteLocations,
                          metadata : IngestRecords]
    /\ ingestResponse = "none"
    /\ ingestNamespace = NoneVal
    /\ ingestVector = NoneVal
    /\ ingestEmbeds = 0
    /\ ingestUpserts = <<>>
    /\ batchRoute = NoneVal
    /\ searchRoute = NoneVal

NextIngest ==
    \/ \E embedOk \in BOOLEAN : IngestDocument(embedOk)
    \/ RouteBatch
    \/ RouteSearch

SpecIngest == InitIngest /\ [][NextIngest]_vars

(***************************************************************************)
(* The specification of POST /search                                       *)
(***************************************************************************)
InitSearch ==
    /\ BatchIdle
    /\ EmbIdle
    /\ UtilIdle
    /\ IngestIdle
    /\ BackendIdle
    /\ SanIdle
    /\ cacheClient = "unset"
    /\ cacheCtorRaised = FALSE
    /\ cacheConnectFailed = FALSE
    /\ cacheStore \in [Queries -> CacheInitData]
    /\ sreq = [r \in RequestIds |-> NoneVal]
    /\ spc = [r \in RequestIds |-> "new"]
    /\ spath = [r \in RequestIds |-> "none"]
    /\ cached = [r \in RequestIds |-> NoneVal]
    /\ lookupRaised = [r \in RequestIds |-> FALSE]
    /\ embedCalls = [r \in RequestIds |-> 0]
    /\ queryCalls = [r \in RequestIds |-> <<>>]
    /\ tasks = [r \in RequestIds |-> <<>>]
    /\ sresponse = [r \in RequestIds |-> NoResponse]
    /\ errorCause = [r \in RequestIds |-> "none"]
    /\ bgTask = [r \in RequestIds |-> NoTask]
    /\ addTaskCalls = [r \in RequestIds |-> 0]
    /\ orderAtStart = [r \in RequestIds |-> [returned |-> FALSE, written |-> FALSE]]

NextSearch ==
    \/ \E r \in RequestIds, request \in SearchRequests,
          connectOk \in BOOLEAN, searchOk \in BOOLEAN, embedOk \in BOOLEAN :
              SearchStart(r, request, connectOk, searchOk, embedOk)
    \/ \E r \in RequestIds, i \in 1..3, ok \in BOOLEAN : QueryReturn(r, i, ok)
    \/ \E r \in RequestIds : GatherReturn(r)
    \/ \E r \in RequestIds, setOk \in BOOLEAN : BackgroundCacheSet(r, setOk)

SpecSearch == InitSearch /\ [][NextSearch]_vars

(***************************************************************************)
(* The specification of POST /search of backend/main.py                    *)
(***************************************************************************)
InitBackend ==
    /\ BatchIdle
    /\ EmbIdle
    /\ UtilIdle
    /\ IngestIdle
    /\ SearchIdle
    /\ SanIdle
    /\ bkCache \in BackendCacheInit
    /\ bkCount = 0
    /\ bkPath = "none"
    /\ bkResponse = BackendNoResponse
    /\ bkTasks = <<>>
    /\ bkRequest = BackendNoRequest

NextBackend ==
    \/ \E techType \in {"redis", "none"}, hasIndex \in BOOLEAN :
          \* the cache search runs only for techType "redis", the embedding
          \* only with an index, the namespace searches only with both
          \E searchOk \in IF techType = "redis" THEN BOOLEAN ELSE {TRUE},
             embedOk \in IF hasIndex THEN BOOLEAN ELSE {TRUE} :
          \E top_k \in IF hasIndex /\ embedOk THEN {MaxTopK - 1, MaxTopK} ELSE {MaxTopK},
             rewrite_query \in IF hasIndex /\ embedOk THEN BOOLEAN ELSE {FALSE},
             oks \in IF hasIndex /\ embedOk THEN [1..3 -> BOOLEAN]
                                             ELSE {[i \in 1..3 |-> TRUE]},
             order \in IF hasIndex /\ embedOk THEN CompletionOrders
                                               ELSE {[i \in 1..3 |-> i]} :
              BackendSearch(techType, top_k, rewrite_query, searchOk, hasIndex,
                            embedOk, oks, order)
    \/ \E setOk \in BOOLEAN : BackendCacheSet(setOk)

SpecBackend == InitBackend /\ [][NextBackend]_vars

(***************************************************************************)
(* The specification of sanitize_metadata                                  *)
(***************************************************************************)
InitSanitize ==
    /\ BatchIdle
    /\ EmbIdle
    /\ UtilIdle
    /\ IngestIdle
    /\ SearchIdle
    /\ BackendIdle
    /\ sanPc = "input"
    /\ sanInput \in SanInputs
    /\ sanOutput = <<>>
    /\ sanAgain = <<>>

NextSanitize == Sanitize \/ SanitizeAgain

SpecSanitize == InitSanitize /\ [][NextSanitize]_vars

(***************************************************************************)
(* The specification of the embedding services                             *)
(***************************************************************************)
InitEmbed ==
    /\ BatchIdle
    /\ IngestIdle
    /\ SearchIdle
    /\ BackendIdle
    /\ SanIdle
    /\ UtilIdle
    /\ embImpl \in {"app", "backend"}
    /\ embOp \in {"single", "batch"}
    /\ embTexts \in SeqsUpTo(EmbTexts, MaxTexts)
    /\ embOp = "single" => Len(embTexts) = 1
    /\ embPos = 1
    /\ embOut = <<>>
    /\ embStatus = "running"
    /\ embUpstream = <<>>

NextEmbed ==
    \/ \E upstreamOk \in BOOLEAN : EmbedSingle(upstreamOk)
    \/ \E upstreamOk \in BOOLEAN : EmbedBatchStep(upstreamOk)
    \/ EmbedBatchReturn

SpecEmbed == InitEmbed /\ [][NextEmbed]_vars

(***************************************************************************)
(* The request handlers together: a behaviour is a run of one of them, the *)
(* search handler of the app, its ingest handler, or the backend's search  *)
(* handler; the others stay as they are before their first request.        *)
(***************************************************************************)
InitHandlers == InitSearch \/ InitIngest \/ InitBackend

NextHandlers ==
    \/ IngestIdle /\ BackendIdle /\ NextSearch
    \/ SearchIdle /\ BackendIdle /\ NextIngest
    \/ SearchIdle /\ IngestIdle /\ NextBackend

SpecHandlers == InitHandlers /\ [][NextHandlers]_vars

(***************************************************************************)
(* The get_*_service factories of app/services/__init__.py.  FastAPI runs  *)
(* a dependency written as a plain function in a worker thread, so the     *)
(* factories of concurrent requests run concurrently.                      *)
(***************************************************************************)
CoreIdle == BatchIdle /\ IngestIdle /\ SearchIdle /\ BackendIdle /\ SanIdle /\ EmbIdle

\* request threads that call a factory in one behaviour
MaxThreads == 3

Threads == 1..MaxThreads

\* lines 20, 34, 48, 61: the four factories
ServiceKinds == {"embedding", "pinecone", "cache", "generate_text"}

\* The constructors that can raise: EmbeddingService without an API key,
\* PineconeService and CacheService on a failed connection.
CtorCanRaise(kind) == kind # "generate_text"

\* lines 26, 40, 54, 66: if _service is None ... else return _service.
\* Nothing keeps a thread from this test while another thread is between
\* its own test and its assignment.
FactoryCheck(t) ==
    /\ svcPc[t] = "start"
    /\ IF svcGlobal = 0
       THEN /\ svcPc' = [svcPc EXCEPT ![t] = "constructing"]
            /\ UNCHANGED svcRet
       ELSE /\ svcPc' = [svcPc EXCEPT ![t] = "done"]
            /\ svcRet' = [svcRet EXCEPT ![t] = svcGlobal]
    /\ UNCHANGED <<svcKind, svcGlobal, svcMade>>
    /\ UNCHANGED nonSvcVars

\* lines 28, 42, 56, 67 and the return: _service = Service(); return it.
\* A constructor that raises leaves the global as it is.
FactoryConstruct(t, ctorOk) ==
    /\ svcPc[t] = "constructing"
    /\ ctorOk \/ CtorCanRaise(svcKind)
    /\ svcPc' = [svcPc EXCEPT ![t] = IF ctorOk THEN "done" ELSE "raised"]
    /\ IF ctorOk
       THEN /\ svcMade' = svcMade + 1
            /\ svcGlobal' = svcMade + 1
            /\ svcRet' = [svcRet EXCEPT ![t] = svcMade + 1]
       ELSE UNCHANGED <<svcMade, svcGlobal, svcRet>>
    /\ UNCHANGED svcKind
    /\ UNCHANGED nonSvcVars

InitFactories ==
    /\ CoreIdle /\ CvIdle /\ GtIdle /\ UpIdle /\ DiIdle
    /\ svcKind \in ServiceKinds
    /\ svcGlobal = 0
    /\ svcPc = [t \in Threads |-> "start"]
    /\ svcRet = [t \in Threads |-> 0]
    /\ svcMade = 0

NextFactories ==
    \/ \E t \in Threads : FactoryCheck(t)
    \/ \E t \in Threads, ctorOk \in BOOLEAN : FactoryConstruct(t, ctorOk)

SpecFactories == InitFactories /\ [][NextFactories]_vars

(***************************************************************************)
(* collect_values and is_nonempty (app/utils/common.py)                    *)
(***************************************************************************)
\* An Enum member with the value v
PyEnum(v) == [t |-> "enum", v |-> v, items |-> <<>>]

\* str.strip on the strings of the model
Strip(s) == IF s = " x " THEN "x" ELSE IF s = " " THEN "" ELSE s

\* str.isdigit on the strings of the model
IsDigit(s) == s \in {"1234", "12345"}

\* is_nonempty, lines 76-84
is_nonempty(v) ==
    IF v.t = "none" THEN FALSE
    ELSE IF v.t = "scalar" THEN Strip(v.v) # ""
    ELSE IF v.t \in {"list", "dict"} THEN Len(v.items) > 0
    ELSE TRUE

\* collect_values, lines 39-63.  value_parts is a local list: the calls of
\* lines 48, 51 and 54 build lists of their own and their results are not
\* used, and the return of line 61 has no value.
collect_values(obj) ==
    IF obj.t = "none" THEN [ret |-> "list", values |-> <<>>]
    ELSE IF obj.t = "enum"
    THEN [ret |-> "list",
          values |-> IF is_nonempty(PyScalar(obj.v)) THEN <<obj.v>> ELSE <<>>]
    ELSE IF obj.t \in {"dict", "list"} THEN [ret |-> "list", values |-> <<>>]
    ELSE IF ~is_nonempty(obj) THEN [ret |-> "list", values |-> <<>>]
    ELSE IF IsDigit(Strip(obj.v)) /\ Len(Strip(obj.v)) > 4
    THEN [ret |-> "None", values |-> <<>>]
    ELSE [ret |-> "list", values |-> <<Strip(obj.v)>>]

CvLeaves ==
    {PyNone, PyScalar(""), PyScalar("x"), PyScalar(" x "), PyScalar("1234"),
     PyScalar("12345"), PyEnum("products")}

CvInputs == CvLeaves \cup DictsOver(CvLeaves) \cup ListsOver(CvLeaves)

\* value_parts = collect_values(product), generate_text_service.py line 141
CollectValues ==
    /\ cvOutput = <<>>
    /\ cvOutput' = <<collect_values(cvInput)>>
    /\ UNCHANGED cvInput
    /\ UNCHANGED nonCvVars

InitCollect ==
    /\ CoreIdle /\ SvcIdle /\ GtIdle /\ UpIdle /\ DiIdle
    /\ cvInput \in CvInputs
    /\ cvOutput = <<>>

NextCollect == CollectValues

SpecCollect == InitCollect /\ [][NextCollect]_vars

(***************************************************************************)
(* GenerateTextService.product_to_semantic_texts: the parts of the         *)
(* description built from the name, the type and the first variant.        *)
(***************************************************************************)
\* str(v) inside an f-string
FormatValue(v) == IF v.t = "none" THEN "None" ELSE v.v

\* lines 106-111 (113-117 for cbd): the lab-test value, a list or a scalar
LabTestParts(label, value) ==
    IF value.t = "list" /\ Len(value.items) > 0
    THEN <<label \o " approx " \o FormatValue(value.items[1][2]) \o "%">>
    ELSE IF is_nonempty(value)
    THEN <<label \o " approx " \o FormatValue(value) \o "%">>
    ELSE <<>>

\* lines 71-79 and 98-125: parts, in the order they are appended
ProductParts(product) ==
    (IF is_nonempty(product.name) THEN <<FormatValue(product.name)>> ELSE <<>>)
    \o (IF is_nonempty(product.type)
        THEN <<"is a " \o FormatValue(product.type) \o " product">> ELSE <<>>)
    \o (IF product.variants = "one"
        THEN LabTestParts("THC", product.thc)
             \o (IF is_nonempty(product.price)
                 THEN <<"price " \o FormatValue(product.price)>> ELSE <<>>)
        ELSE <<>>)

\* The product records: name and type absent, empty or given; variants
\* absent, an empty list or a list of one variant with its THC value (None,
\* empty, a list with a null or a number, a number) and its price.
Products ==
    [name : {PyNone, PyScalar(""), PyScalar("Kush")},
     type : {PyNone, PyScalar(""), PyScalar("flower")},
     variants : {"absent", "empty"},
     thc : {PyNone},
     price : {PyNone}]
    \cup
    [name : {PyNone, PyScalar("Kush")},
     type : {PyNone, PyScalar("flower")},
     variants : {"one"},
     thc : {PyNone, PyScalar(""), PyScalar("20"), PyList(<<>>),
            PyList(<<PyNone>>), PyList(<<PyScalar("20")>>)},
     price : {PyNone, PyScalar(""), PyScalar("10")}]

\* product_to_semantic_texts, lines 62-137
ProductToSemanticTexts ==
    /\ gtParts = <<>>
    /\ gtParts' = <<ProductParts(gtProduct)>>
    /\ UNCHANGED gtProduct
    /\ UNCHANGED nonGtVars

InitText ==
    /\ CoreIdle /\ SvcIdle /\ CvIdle /\ UpIdle /\ DiIdle
    /\ gtProduct \in Products
    /\ gtParts = <<>>

NextText == ProductToSemanticTexts

SpecText == InitText /\ [][NextText]_vars

(***************************************************************************)
(* PineconeService.upsert and PineconeClient.upsert_vectors: the loop that *)
(* sends the vectors to the index in batches.                              *)
(***************************************************************************)
MaxBatches == 2

\* the lists of vectors: every length up to one more than MaxBatches full
\* batches; a vector is named by its position in the list
UpsertInputs == {[k \in 1..n |-> k] : n \in 0..(MaxBatches * batch_size + 1)}

\* an out-of-range bound is clamped, as Python clamps it
SliceInclusive(vectors, a, b) == SubSeq(vectors, a + 1, Min(b + 1, Len(vectors)))

\* vectors[a:b]
Slice(vectors, a, b) == SubSeq(vectors, a + 1, Min(b, Len(vectors)))

\* one iteration of the loop: range(0, total, batch_size) was evaluated
\* with the step 100 before the first iteration; the slice reads the
\* current batch_size, which PineconeService.upsert reassigns to len(batch).
\* An index call that fails ends the call: the service re-raises, the
\* client returns False.
UpsertBatchCall(ok) ==
    /\ upImpl # "none"
    /\ upResult = <<>>
    /\ upI < Len(upVectors)
    /\ LET batch == Slice(upVectors, upI, upI + upBatchSize)
       IN  IF ok
           THEN /\ upCalls' = Append(upCalls, batch)
                /\ upI' = upI + batch_size
                /\ upBatchSize' = IF upImpl = "app" THEN Len(batch) ELSE upBatchSize
                /\ UNCHANGED upResult
           ELSE /\ upResult' = <<[status |-> IF upImpl = "app" THEN "raised" ELSE "false",
                                  total_upserted |-> 0, batches |-> 0]>>
                /\ UNCHANGED <<upCalls, upI, upBatchSize>>
    /\ UNCHANGED <<upImpl, upVectors>>
    /\ UNCHANGED nonUpVars

\* the range is exhausted: the service returns the total and the responses,
\* the client returns True
UpsertReturn ==
    /\ upImpl # "none"
    /\ upResult = <<>>
    /\ upI >= Len(upVectors)
    /\ upResult' = <<[status |-> "returned",
                      total_upserted |-> IF upImpl = "app" THEN Len(upVectors) ELSE 0,
                      batches |-> IF upImpl = "app" THEN Len(upCalls) ELSE 0]>>
    /\ UNCHANGED <<upImpl, upVectors, upI, upBatchSize, upCalls>>
    /\ UNCHANGED nonUpVars

\* PineconeClient.upsert_vectors without an index returns False at once
UpsertNoIndex ==
    /\ upImpl = "backend"
    /\ upResult = <<>>
    /\ upI = 0
    /\ upCalls = <<>>
    /\ upResult' = <<[status |-> "false", total_upserted |-> 0, batches |-> 0]>>
    /\ UNCHANGED <<upImpl, upVectors, upI, upBatchSize, upCalls>>
    /\ UNCHANGED nonUpVars

InitUpsert ==
    /\ CoreIdle /\ SvcIdle /\ CvIdle /\ GtIdle /\ DiIdle
    /\ upImpl \in {"app", "backend"}
    /\ upVectors \in UpsertInputs
    /\ upI = 0
    /\ upBatchSize = batch_size
    /\ upCalls = <<>>
    /\ upResult = <<>>

NextUpsert ==
    \/ \E ok \in BOOLEAN : UpsertBatchCall(ok)
    \/ UpsertReturn
    \/ UpsertNoIndex

SpecUpsert == InitUpsert /\ [][NextUpsert]_vars

(***************************************************************************)
(* DataIngestion.create_product_vectors, create_blog_vectors and           *)
(* create_store_vectors: one task per record on a pool of ten threads, the *)
(* results collected as the tasks complete.                                *)
(***************************************************************************)
MaxOffline == 3

\* a record is a map whose vector creation succeeds ("ok") or raises ("fail")
OfflineRecords == SeqsUpTo({"ok", "fail"}, MaxOffline)

\* embeddings_service.create_*_vector has no handler of its own
CreateVector(record) == IF record = "ok" THEN "vector" ELSE "raised"

\* a task without the try/except
CreateSingleVectorUnguarded(record) == CreateVector(record)

\* create_single_*_vector: the try/except turns an exception into None
CreateSingleVector(record) ==
    IF CreateVector(record) = "raised" THEN "none" ELSE "vector"

DiRunning == {i \in 1..Len(diStatus) : diStatus[i] = "running"}

\* a pool thread takes the next submitted task
OfflineWorkerStart(i) ==
    /\ diPc = "collecting"
    /\ diStatus[i] = "queued"
    /\ \A j \in 1..(i - 1) : diStatus[j] # "queued"
    /\ Cardinality(DiRunning) < max_workers
    /\ diStatus' = [diStatus EXCEPT ![i] = "running"]
    /\ UNCHANGED <<diKind, diRecords, diVectors, diPc>>
    /\ UNCHANGED nonDiVars

\* the task ends; its future holds a vector, None or an exception
OfflineWorkerFinish(i) ==
    /\ diPc = "collecting"
    /\ diStatus[i] = "running"
    /\ diStatus' = [diStatus EXCEPT ![i] = CreateSingleVector(diRecords[i])]
    /\ UNCHANGED <<diKind, diRecords, diVectors, diPc>>
    /\ UNCHANGED nonDiVars

\* the main thread takes a completed future from as_completed:
\* future.result() re-raises the task's exception; a result that is not
\* None is appended
OfflineCollect(i) ==
    /\ diPc = "collecting"
    /\ diStatus[i] \in {"vector", "none", "raised"}
    /\ diStatus' = [diStatus EXCEPT ![i] = "collected"]
    /\ IF diStatus[i] = "raised"
       THEN diPc' = "raised" /\ UNCHANGED diVectors
       ELSE /\ diVectors' = IF diStatus[i] # "none" THEN Append(diVectors, i)
                                                    ELSE diVectors
            /\ UNCHANGED diPc
    /\ UNCHANGED <<diKind, diRecords>>
    /\ UNCHANGED nonDiVars

\* every future was yielded: the with block ends and the list is returned
OfflineReturn ==
    /\ diPc = "collecting"
    /\ \A i \in 1..Len(diStatus) : diStatus[i] = "collected"
    /\ diPc' = "returned"
    /\ UNCHANGED <<diKind, diRecords, diStatus, diVectors>>
    /\ UNCHANGED nonDiVars

InitOffline ==
    /\ CoreIdle /\ SvcIdle /\ CvIdle /\ GtIdle /\ UpIdle
    /\ diKind \in {"product", "blog", "store"}
    /\ diRecords \in OfflineRecords
    /\ diStatus = [i \in 1..Len(diRecords) |-> "queued"]
    /\ diVectors = <<>>
    /\ diPc = "collecting"

NextOffline ==
    \/ \E i \in 1..Len(diRecords) : OfflineWorkerStart(i)
    \/ \E i \in 1..Len(diRecords) : OfflineWorkerFinish(i)
    \/ \E i \in 1..Len(diRecords) : OfflineCollect(i)
    \/ OfflineReturn

SpecOffline == InitOffline /\ [][NextOffline]_vars

(***************************************************************************)
(* Claims about POST /batch-ingest                                         *)
(***************************************************************************)
\* Nothing more can reach the vector store: every worker has returned, the
\* queue is drained and the consumer is blocked on the empty queue or gone.
BatchQuiescent ==
    /\ AllWorkersFinished
    /\ vector_queue = <<>>
    /\ consumerPc \in {"waiting", "done", "dead"}

\* C1: a batch of N records of which K fail synthesis or embedding has, once
\* the job's work is over, passed exactly N-K vectors to upsert (over all
\* calls) and raised no error to the caller.
C1_AllGoodVectorsUpserted ==
    BatchQuiescent =>
        /\ VectorsPassed = N - NumFailed
        /\ batchResponse # "error"

\* C2: once all workers have finished, the consumer stops polling and the
\* background job reaches its end.
C2_ConsumerTerminates == AllWorkersFinished ~> (jobPc = "done")

jobState == <<jobPc, recStatus, vector_queue, consumerPc, vectors_to_upsert,
              total_processed, upsertCalls, errorLogs>>

C3_IngestAndSearchAgree ==
    ingestRequest.type # ALL =>
        /\ (ingestNamespace # NoneVal /\ searchRoute # NoneVal)
                => searchRoute[1] = <<ingestNamespace[1]>>
        /\ (batchRoute # NoneVal /\ searchRoute # NoneVal)
                => searchRoute[1] = <<batchRoute[1]>>
        /\ (ingestRequest.type = PRODUCTS /\ ingestRequest.location_id = NoneVal)
                => /\ ingestNamespace # NoneVal => ingestNamespace[1] = "orphan-products"
                   /\ batchRoute # NoneVal => batchRoute[1] = "orphan-products"
                   /\ searchRoute # NoneVal => searchRoute[1] = <<"orphan-products">>

\* C4: when POST /ingest answers success, exactly one upsert call has been
\* made, with that one vector, in the routed namespace.
C4_IngestUpsertsBeforeResponse ==
    ingestResponse = "success" =>
        /\ Len(ingestUpserts) = 1
        /\ ingestUpserts[1].vectors = <<ingestVector[1]>>
        /\ ingestUpserts[1].namespace = ingestNamespace[1]

(***************************************************************************)
(* Claims about POST /search and the cache                                 *)
(***************************************************************************)
\* The matches a stored JSON response deserializes to (lines 43-49).
StoredMatches(response) ==
    [i \in 1..Len(response.body) |->
        [id |-> response.body[i][2], metadata |-> response.body[i][4],
         score |-> response.body[i][6], values |-> <<>>]]

\* C5: a lookup that returns an entry with a non-empty stored response is a
\* hit: the handler answers with the deserialized stored matches and calls
\* neither the embedding gateway nor the index; an entry whose stored
\* response is empty is a miss.
C5_HitSkipsEmbeddingAndIndex ==
    \A r \in RequestIds :
        /\ (cached[r] # NoneVal /\ cached[r][1][1].kind # "empty")
              => /\ spath[r] = "hit"
                 /\ embedCalls[r] = 0
                 /\ queryCalls[r] = <<>>
                 /\ cached[r][1][1].kind = "json"
                       => /\ sresponse[r].status = 200
                          /\ sresponse[r].results = StoredMatches(cached[r][1][1])
        /\ (cached[r] # NoneVal /\ cached[r][1][1].kind = "empty")
              => /\ spath[r] = "miss"
                 /\ embedCalls[r] = 1

\* A hit that answered with one stored match.
C5_HitAnswered ==
    /\ spath["first"] = "hit"
    /\ sresponse["first"].status = 200
    /\ Len(sresponse["first"].results) = 1
    /\ sresponse["first"].results[1].id = "old"

Ids(ms) == [i \in 1..Len(ms) |-> ms[i].id]

\* Request r has left the handler on the miss path with no dependency
\* having raised: embedding and every index query returned.
MissReturned(r) ==
    /\ sreq[r] # NoneVal
    /\ spath[r] = "miss"
    /\ spc[r] \in {"responded", "failed"}
    /\ errorCause[r] # "embedding"
    /\ \A i \in 1..Len(tasks[r]) : tasks[r][i].status # "failed"

\* C11: a search with namespace "all" whose products namespace holds no
\* match still queries products, blogs and stores, and answers without error
\* with the merged matches of blogs and stores.
C11_EmptyProductsStillMerged ==
    \A r \in RequestIds :
        ( /\ MissReturned(r)
          /\ sreq[r][1].namespace = <<"all">>
          /\ IndexContent(SearchNamespaceStr(<<"products">>, sreq[r][1].location_id)) = <<>> )
            => /\ Len(queryCalls[r]) = 3
               /\ queryCalls[r][1].target = "products"
               /\ queryCalls[r][2].target = "blogs"
               /\ queryCalls[r][3].target = "stores"
               /\ sresponse[r].status = 200
               /\ Ids(sresponse[r].results) =
                     Ids(IndexQuery("blogs", sreq[r][1].top_k))
                        \o Ids(IndexQuery("stores", sreq[r][1].top_k))

\* A search over all namespaces without products answered with the blog
\* and the two best stores.
C11_BlogsAndStoresReturned ==
    /\ sreq["first"] # NoneVal
    /\ sreq["first"][1].namespace = <<"all">>
    /\ sreq["first"][1].location_id = NoneVal
    /\ Len(tasks["first"]) = 3
    /\ tasks["first"][1] = [status |-> "done", result |-> <<>>]
    /\ sresponse["first"].status = 200
    /\ Ids(sresponse["first"].results) = <<"b1", "s1", "s2">>

RECURSIVE ResultsBefore(_, _)
\* The number of matches the first n namespace queries returned.
ResultsBefore(ts, n) ==
    IF n = 0 THEN 0 ELSE ResultsBefore(ts, n - 1) + Len(ts[n].result)

C14_MissSchedulesOneWrite ==
    /\ [](\A r \in RequestIds :
            /\ (spath[r] = "miss" /\ sresponse[r].status = 200)
                  => /\ addTaskCalls[r] = 1
                     /\ bgTask[r].status # "none"
                     /\ bgTask[r].query = sreq[r][1].query
                     /\ Len(bgTask[r].value) = Len(sresponse[r].results)
                     /\ \A i \in 1..Len(bgTask[r].value) :
                           /\ bgTask[r].value[i].id = sresponse[r].results[i].id
                           /\ bgTask[r].value[i].score = sresponse[r].results[i].score
                           /\ bgTask[r].value[i].metadata = sresponse[r].results[i].metadata
            /\ spath[r] = "hit" => (addTaskCalls[r] = 0 /\ bgTask[r].status = "none"))
    /\ [][\A r \in RequestIds :
            (spc[r] = "gather" /\ spc'[r] = "responded")
                => (bgTask'[r].status = "pending" /\ cacheStore' = cacheStore)]_vars

\* A miss has answered with matches while its cache write is still pending.
C14_RespondedWritePending ==
    /\ spath["first"] = "miss"
    /\ sresponse["first"].status = 200
    /\ Len(sresponse["first"].results) = 2
    /\ addTaskCalls["first"] = 1
    /\ bgTask["first"].status = "pending"

C13_TotalIsResultCount ==
    /\ \A r \in RequestIds :
          sresponse[r].status = 200
              => sresponse[r].total_results = Len(sresponse[r].results)
    /\ bkResponse.status = 200
          => bkResponse.total_results = Len(bkResponse.results)

(***************************************************************************)
(* Claims about sanitize_metadata                                          *)
(***************************************************************************)
\* C17: whatever value goes in, every value of the map sanitize_metadata
\* returns is a scalar: none is null, a map or a list.
C17_SanitizedValuesAreScalars ==
    sanPc \in {"once", "twice"} =>
        \A i \in 1..Len(sanOutput) : sanOutput[i][2].t = "scalar"

\* A map holding a list with a null element came out as the one scalar
\* under the flattened key.
C17_NestedListFlattened ==
    /\ sanPc = "once"
    /\ sanInput = PyDict(<<<<"a", PyList(<<PyScalar("x"), PyNone>>)>>>>)
    /\ sanOutput = <<<<"a_0", PyScalar("x")>>>>

\* Equality of two dicts held as their items (dict equality ignores order).
DictEq(a, b) ==
    /\ {a[i][1] : i \in 1..Len(a)} = {b[i][1] : i \in 1..Len(b)}
    /\ \A i \in 1..Len(a) : \A j \in 1..Len(b) : a[i][1] = b[j][1] => a[i][2] = b[j][2]

\* The value is a map all of whose values are non-null scalars.
IsFlat(data) ==
    /\ data.t = "dict"
    /\ \A i \in 1..Len(data.items) : data.items[i][2].t = "scalar"

\* C18: sanitize_metadata returns a map of non-null scalars unchanged, and
\* applying it to its own result changes nothing.
C18_SanitizeIdempotent ==
    /\ (sanPc \in {"once", "twice"} /\ IsFlat(sanInput))
          => DictEq(sanOutput, sanInput.items)
    /\ sanPc = "twice" => DictEq(sanAgain, sanOutput)

\* A nested input was flattened to two keys, and the second application
\* returned those two keys again.
C18_SecondApplicationNoOp ==
    /\ sanPc = "twice"
    /\ sanInput = PyDict(<<<<"a", PyDict(<<<<"a", PyScalar("x")>>>>)>>,
                           <<"a_0", PyList(<<PyScalar("x")>>)>>>>)
    /\ sanOutput = <<<<"a_a", PyScalar("x")>>, <<"a_0_0", PyScalar("x")>>>>
    /\ sanAgain = sanOutput

(***************************************************************************)
(* Claims about the namespace and the vector id of the ingest paths        *)
(***************************************************************************)
\* C16: ingest and batch ingest use, for products, the location_id (or
\* "orphan" when it is absent or empty) followed by "-products", and for
\* blogs and stores the type name, whatever the location_id.
C16_IngestNamespaceRule ==
    LET type == ingestRequest.type
        loc == ingestRequest.location_id
        expected == IF type = "products"
                    THEN (IF loc = <<>> \/ loc = <<"">> THEN "orphan" ELSE loc[1])
                            \o "-products"
                    ELSE type
    IN type \in {"products", "blogs", "stores"} =>
          /\ ingestNamespace # NoneVal => ingestNamespace[1] = expected
          /\ batchRoute # NoneVal => batchRoute[1] = expected

\* A product with an empty location_id went to "orphan-products" on both
\* ingest paths.
C16_EmptyLocationIsOrphan ==
    /\ ingestRequest.type = "products"
    /\ ingestRequest.location_id = <<"">>
    /\ ingestNamespace = <<"orphan-products">>
    /\ batchRoute = <<"orphan-products">>

\* The first of id, databaseId, zip that is present and non-null.
FirstPresent(m) ==
    IF m.id # NoneVal THEN m.id
    ELSE IF m.databaseId # NoneVal THEN m.databaseId
    ELSE m.zip

\* C19: the id of every vector built is the string form of the first of
\* id, databaseId, zip that is present and non-null in the record, and is a
\* non-empty string derived from that key.
C19_VectorIdFromIdentityKey ==
    ingestVector # NoneVal =>
        LET key == FirstPresent(ingestRequest.metadata)
        IN /\ key # NoneVal
           /\ ingestVector[1].id = key[1]
           /\ ingestVector[1].id # ""

\* C20: generate_text raises for a type outside products, blogs, stores
\* ("all" included): no record of such a batch yields a vector, each such
\* failure is fatal for its record only, and the batch job still reaches
\* its end.
C20_UnknownTypeFatalForRecordOnly ==
    /\ [](\A i \in 1..N : (batchType = ALL /\ Finished(i)) => recStatus[i] = "failed")
    /\ [](batchType = ALL => batchResponse # "error")
    /\ (batchType = ALL /\ jobPc = "started") ~> (jobPc = "done")

(***************************************************************************)
(* Claims about the embedding services                                     *)
(***************************************************************************)
\* C21: a batch embedding call that returns gives a list as long as the
\* list of texts, whose i-th element is the provider's embedding of the
\* i-th text (of the text as given, or stripped as the backend sends it).
C21_BatchEmbeddingsMatchTexts ==
    (embOp = "batch" /\ embStatus = "returned") =>
        /\ Len(embOut) = Len(embTexts)
        /\ \A i \in 1..Len(embTexts) :
              /\ embOut[i].kind = "embedding"
              /\ embOut[i].of \in {embTexts[i], CleanedText(embTexts[i])}

\* C22: the single-text operation raises for an empty or blank text, raises
\* when the provider call fails, and calls the provider at most once.
C22_SingleEmbeddingFailsOnBlank ==
    (embOp = "single" /\ embStatus \in {"returned", "raised"}) =>
        /\ CleanedText(embTexts[1]) = "" => embStatus = "raised"
        /\ embUpstream[1].failed => embStatus = "raised"
        /\ embUpstream[1].calls <= 1

(***************************************************************************)
(* Claims about long batches                                               *)
(***************************************************************************)
\* The content the namespace has when the vectors are written in the order
\* of the request's list, which is the order of one interleaving.
ListOrderContent ==
    UpsertVectors({}, [i \in 1..N |-> Vector(metadata_list[i])])

\* C23: when every record of a finished job succeeded and every upsert went
\* through, the namespace holds what writing the records in list order
\* leaves there, whatever the order in which workers and consumer ran.
C23_ContentIndependentOfInterleaving ==
    ( /\ jobPc = "done"
      /\ \A i \in 1..N : recStatus[i] = "ok"
      /\ \A c \in 1..Len(upsertCalls) : upsertCalls[c].ok )
        => NamespaceContent = ListOrderContent

\* C30: never more than 10 records are being processed; a record that a
\* worker has taken is never taken again and a finished record stays
\* finished; the vectors put on the queue (waiting there or already taken
\* by the consumer) are one per successful record.
C30_PoolBoundAndOncePerRecord ==
    /\ [](NumRunning <= 10)
    /\ [](Cardinality({i \in 1..N : recStatus[i] = "ok"})
              = Len(vector_queue) + total_processed)
    /\ [][\A i \in 1..N :
            /\ recStatus[i] = "running" => recStatus'[i] \in {"running", "ok", "failed"}
            /\ recStatus[i] \in {"ok", "failed"} => recStatus'[i] = recStatus[i]]_vars

\* C30: ten records are being processed and the eleventh waits for a thread.
C30_TenRunningOneWaiting ==
    /\ N = max_workers + 1
    /\ NumRunning = 10
    /\ recStatus[N] = "pending"

(***************************************************************************)
(* Claims about the consumer of POST /batch-ingest                         *)
(***************************************************************************)
\* C27: the consumer calls upsert in exactly the steps in which it takes a
\* vector and either the accumulator reaches 100 or its count reaches N,
\* and a call that returns leaves the accumulator empty.  Every call
\* carries between 1 and 100 vectors; every dequeued vector is in exactly
\* one call or still in the accumulator; a consumer that returned left
\* nothing in the accumulator; a finished batch of at most 100 records that
\* all succeeded made exactly one call.
C27_FlushRule ==
    /\ [][ /\ (Len(upsertCalls') = Len(upsertCalls) + 1)
              <=> ( /\ total_processed' = total_processed + 1
                    /\ \/ Len(vectors_to_upsert) + 1 = batch_size
                       \/ total_processed' = N )
           /\ (upsertCalls' # upsertCalls /\ consumerPc' # "dead")
              => vectors_to_upsert' = <<>> ]_vars
    /\ [](\A c \in 1..Len(upsertCalls) :
              Len(upsertCalls[c].vectors) \in 1..batch_size)
    /\ [](VectorsPassed
              + (IF consumerPc = "dead" THEN 0 ELSE Len(vectors_to_upsert))
            = total_processed)
    /\ [](consumerPc = "done" => vectors_to_upsert = <<>>)
    /\ []((consumerPc = "done" /\ N \in 1..batch_size /\ NumFailed = 0)
              => Len(upsertCalls) = 1)

\* C27: a batch of 101 records went through: one call of 100 vectors when
\* the accumulator was full, one call of 1 vector at the end.
C27_FullBatchThenRemainder ==
    /\ consumerPc = "done"
    /\ Len(upsertCalls) = 2
    /\ Len(upsertCalls[1].vectors) = batch_size
    /\ Len(upsertCalls[2].vectors) = 1
    /\ vectors_to_upsert = <<>>

\* C28: when all N workers have finished and the queue is drained, the
\* count the consumer compares with N at its completion check equals N.
C28_CountCoversFailedRecords ==
    (AllWorkersFinished /\ vector_queue = <<>> /\ consumerPc = "head")
        => total_processed = N

\* C29: an upsert that raises in the consumer is logged, the response of
\* /batch-ingest is the success acknowledgement and does not change once
\* given, and the background job ends.
C29_UpsertFailureLoggedJobEnds ==
    /\ [](consumerPc = "dead" =>
            /\ upsertCalls[Len(upsertCalls)].logged
            /\ handlerPc = "responded" => batchResponse = "success")
    /\ [][handlerPc = "responded" =>
            (handlerPc' = "responded" /\ batchResponse' = batchResponse)]_vars
    /\ (consumerPc = "dead") ~> (jobPc = "done")

\* C29: the consumer died of a failed upsert, the job ended and the caller
\* holds the success response.
C29_JobEndedAfterFailedUpsert ==
    /\ consumerPc = "dead"
    /\ jobPc = "done"
    /\ batchResponse = "success"
    /\ ~upsertCalls[Len(upsertCalls)].ok

(***************************************************************************)
(* Claims about failures, ranking and query_rewritten                      *)
(***************************************************************************)
\* C24: a search whose embedding call or one of whose namespace queries
\* failed ends with the error response, which carries no results, and no
\* cache write was scheduled for it; a search that was answered with
\* results had no failed query.  A single ingest whose text synthesis or
\* embedding failed ends with the error response.
C24_SyncFailuresSurface ==
    /\ \A r \in RequestIds :
          /\ ( \/ errorCause[r] = "embedding"
               \/ (spc[r] # "gather" /\ \E i \in 1..Len(tasks[r]) :
                                            tasks[r][i].status = "failed") )
                => /\ spc[r] = "failed"
                   /\ sresponse[r] = HTTP500
                   /\ sresponse[r].results = <<>>
                   /\ errorCause[r] \in {"embedding", "query"}
                   /\ bgTask[r] = NoTask
                   /\ addTaskCalls[r] = 0
          /\ spc[r] = "responded" =>
                \A i \in 1..Len(tasks[r]) : tasks[r][i].status = "done"
    /\ ingestResponse # "none" =>
          /\ ~GenerateTextOk(ingestRequest.metadata, ingestRequest.type)
                => ingestResponse = "error500"
          /\ (ingestEmbeds = 1 /\ ingestVector = NoneVal)
                => ingestResponse = "error500"

\* C24: a search failed on one namespace query although another query had
\* returned matches.
C24_QueryFailedOthersReturned ==
    \E r \in RequestIds :
        /\ spc[r] = "failed"
        /\ errorCause[r] = "query"
        /\ \E i \in 1..Len(tasks[r]) :
              tasks[r][i].status = "done" /\ tasks[r][i].result # <<>>
        /\ \E i \in 1..Len(tasks[r]) : tasks[r][i].status = "failed"

\* The place of a namespace in the query order product, blog, store.
NsIndex(ns) == CHOOSE i \in 1..3 : backendNamespaces[i] = ns

\* C25: the results of a backend search are in descending order of score,
\* and of two results with the same score the one of the namespace queried
\* first comes first.
C25_RankedWithNamespaceTieBreak ==
    (bkPath = "miss" /\ bkResponse.status = 200) =>
        \A i, j \in 1..Len(bkResponse.results) :
            i < j =>
                LET a == bkResponse.results[i]
                    b == bkResponse.results[j]
                IN \/ a.score > b.score
                   \/ a.score = b.score /\ NsIndex(a.namespace) <= NsIndex(b.namespace)

\* C26: every search response, of the app's handler and of the backend's,
\* from the cache or from the index, has query_rewritten null.
C26_QueryRewrittenNull ==
    /\ \A r \in RequestIds :
          sresponse[r].status = 200 => sresponse[r].query_rewritten = NoneVal
    /\ bkResponse.status = 200 => bkResponse.query_rewritten = NoneVal

\* C26: the backend answered a search from the index with results.
C26_BackendMissAnswered ==
    /\ bkPath = "miss"
    /\ bkResponse.status = 200
    /\ bkResponse.results # <<>>
    /\ bkResponse.query_rewritten = NoneVal

C32_OneInstancePerFactory ==
    /\ svcMade <= 1
    /\ \A t, u \in DOMAIN svcRet :
          (svcRet[t] # 0 /\ svcRet[u] # 0) => svcRet[t] = svcRet[u]

(***************************************************************************)
(* Claims about collect_values and sanitize_metadata                       *)
(***************************************************************************)
\* What a scalar leaf contributes to the values-only list.
LeafValues(v) ==
    IF v.t \in {"scalar", "enum"} /\ Strip(v.v) # ""
          /\ ~(IsDigit(Strip(v.v)) /\ Len(Strip(v.v)) > 4)
    THEN {Strip(v.v)} ELSE {}

\* The non-empty scalar leaves of a value, long digit strings left out.
ExpectedValues(obj) ==
    IF obj.t \in {"dict", "list"}
    THEN UNION {LeafValues(obj.items[i][2]) : i \in 1..Len(obj.items)}
    ELSE LeafValues(obj)

\* C33: collect_values returns a list that holds exactly the non-empty
\* scalar leaves of the record, enums by their value, without the digit
\* strings of more than 4 digits.
C33_ValuesOfEveryLeaf ==
    cvOutput # <<>> =>
        /\ cvOutput[1].ret = "list"
        /\ {cvOutput[1].values[i] : i \in 1..Len(cvOutput[1].values)}
              = ExpectedValues(cvInput)

\* The number of non-null leaves of a value.
RECURSIVE NonNullLeaves(_)
NonNullLeaves(data) ==
    IF data.t = "none" THEN 0
    ELSE IF data.t \in {"dict", "list"}
    THEN LET RECURSIVE Sum(_)
             Sum(items) == IF items = <<>> THEN 0
                           ELSE NonNullLeaves(items[1][2]) + Sum(Tail(items))
         IN Sum(data.items)
    ELSE 1

\* C35: the output of sanitize_metadata has one entry per non-null leaf of
\* its input.
C35_OneEntryPerLeaf ==
    sanPc \in {"once", "twice"} => Len(sanOutput) = NonNullLeaves(sanInput)

\* The parts that render an absent value: None or the empty string where
\* the value belongs.
AbsentParts ==
    UNION {{a, "is a " \o a \o " product", "THC approx " \o a \o "%", "price " \o a} :
              a \in {"None", ""}}

\* C34: no part of the description of a product renders an absent value.
C34_NoAbsentValueRendered ==
    gtParts # <<>> =>
        \A i \in 1..Len(gtParts[1]) : gtParts[1][i] \notin AbsentParts

\* ceil(n / d) for naturals
CeilDiv(n, d) == (n + d - 1) \div d

\* C36: an upsert that returns has issued ceil(L/100) index calls of at most
\* 100 vectors each, whose concatenation in call order is the input list,
\* and PineconeService.upsert reports total_upserted = L.
C36_UpsertPartitionsInput ==
    (upResult # <<>> /\ upResult[1].status = "returned") =>
        /\ Len(upCalls) = CeilDiv(Len(upVectors), 100)
        /\ \A c \in 1..Len(upCalls) : Len(upCalls[c]) \in 1..100
        /\ Concat(upCalls) = upVectors
        /\ upImpl = "app" =>
              /\ upResult[1].total_upserted = Len(upVectors)
              /\ upResult[1].batches = Len(upCalls)

\* the service returned after two full batches and a last batch of one
C36_TwoFullBatchesAndOne ==
    /\ upImpl = "app"
    /\ upResult # <<>> /\ upResult[1].status = "returned"
    /\ Len(upVectors) = 2 * batch_size + 1
    /\ Len(upCalls) = 3
    /\ Len(upCalls[3]) = 1

\* the records whose vector creation fails
FailedRecords == {i \in 1..Len(diRecords) : diRecords[i] = "fail"}

\* C37: the offline vector creation never raises because of a failing
\* record, and the list it returns has one vector per successful record and
\* nothing else: N - K vectors for N records of which K fail.
C37_FailedRecordsDropped ==
    /\ diPc # "raised"
    /\ diPc = "returned" =>
          /\ Len(diVectors) = Len(diRecords) - Cardinality(FailedRecords)
          /\ {diVectors[k] : k \in 1..Len(diVectors)}
                = (1..Len(diRecords)) \ FailedRecords

\* three records, the second fails, the third completes before the first
C37_MiddleRecordDropped ==
    /\ diPc = "returned"
    /\ diRecords = <<"ok", "fail", "ok">>
    /\ diVectors = <<3, 1>>

\* the results of the last backend response that come from one namespace,
\* in the order of the response
ResultsOfNamespace(ns) ==
    LET FromNs(m) == m.namespace = ns
    IN SelectSeq(bkResponse.results, FromNs)

\* the best n vectors of a namespace
BestOf(ns, n) ==
    SubSeq(BackendIndexContent(ns), 1, Min(n, Len(BackendIndexContent(ns))))

\* C38: when the backend runs the namespace queries, the request is answered
\* whatever queries fail; the response holds, of every namespace whose query
\* succeeded, its best matches, at most 3 (and at most 2 * top_k), and
\* nothing of a namespace whose query failed.  The cache is searched, and a
\* cache write scheduled, only for a request with techType "redis".
C38_NamespaceFailureTolerated ==
    /\ [](bkRequest.queries # <<>> =>
            /\ bkResponse.status = 200
            /\ bkResponse.total_results = Len(bkResponse.results)
            /\ \A i \in 1..3 :
                  LET ns == backendNamespaces[i]
                      got == ResultsOfNamespace(ns)
                  IN /\ Len(got) <= 3
                     /\ got = IF bkRequest.queries[1].oks[i]
                              THEN BestOf(ns, Min(3, 2 * bkRequest.queries[1].top_k))
                              ELSE <<>>)
    /\ [](bkRequest.cacheRead => bkRequest.techType = "redis")
    /\ [][Len(bkTasks') > Len(bkTasks) => bkRequest'.techType = "redis"]_vars

\* the blog query failed: the request without techType is answered with the
\* two products and three of the four stores, and no cache write is scheduled
C38_BlogQueryFailed ==
    /\ bkRequest.techType = "none"
    /\ bkRequest.queries = <<[top_k |-> 2, oks |-> <<TRUE, FALSE, TRUE>>]>>
    /\ bkResponse.status = 200
    /\ Len(bkResponse.results) = 5
    /\ Len(ResultsOfNamespace("store")) = 3
    /\ bkTasks = <<>>

====
